---- MODULE Spec2Model ----
(***************************************************************************)
(* A model of the replicated key/value chain of src/src: the signing       *)
(* envelope (crypto.py), the application state and block builder           *)
(* (execution.py), the consensus tallies (consensus.py) and the node that  *)
(* ties them together (node.py).                                           *)
(*                                                                         *)
(* Representation of the Python values:                                    *)
(*   - a str is a sequence of tokens; "" is <<>>, and ":" is the token ":" *)
(*   - a public key (hex) is a number >= 1; the string "genesis" is 0,     *)
(*     which is no key                                                     *)
(*   - SHA-256 is collision free: hash_data(d) is <<"sha256", bytes of d>> *)
(*   - Ed25519 is an ideal signature: the signature of a payload under a   *)
(*     key is the pair of the key and the payload                          *)
(*   - a dict with insertion order is a sequence of <<key, value>> pairs   *)
(*     with distinct keys; the per-height dicts of the consensus state are *)
(*     functions over Heights, None / the empty list standing for a        *)
(*     missing entry                                                       *)
(***************************************************************************)
EXTENDS Integers, Sequences, FiniteSets, TLC

VARIABLES node, raised, signed, proposed

vars == <<node, raised, signed, proposed>>

-----------------------------------------------------------------------------
(* Bounds of the model *)

MaxValidators == 3

MaxHeight == 1

MaxVotes == 4

MaxPending == 1

MaxBlocks == 2

MaxSigned == 2

Nodes == {1, 2}

\* The heights of blocks and of the per-height maps: blocks are built one
\* height above the last height of the vote-only specifications
Heights == 0..(MaxHeight + 1)

VoteHeights == 1..MaxHeight

Keys == 1..(MaxValidators + 1)

-----------------------------------------------------------------------------
(* Python values *)

None == <<"None">>

EmptyStr == <<>>

Truthy(x) == x # None /\ x # EmptyStr

CHAIN_ID == <<"test-chain">>

OTHER_CHAIN == <<"other-chain">>

CTX_TX == <<"TX">>

CTX_HEADER == <<"HEADER">>

CTX_VOTE == <<"VOTE">>

PREVOTE == "prevote"

PRECOMMIT == "precommit"

ZeroHash == <<"0">>

HashA == <<"a">>

\* A signature string that is no signature of anything: "", "0" * 128
BadSig == [signer |-> 0, payload |-> [prefix |-> <<>>, msg |-> [none |-> 0]]]

Max(a, b) == IF a >= b THEN a ELSE b

-----------------------------------------------------------------------------
(* crypto.py *)

\* Keys of a dict are (owner, name) pairs standing for the string owner/name;
\* JSON's sort_keys orders them as strings: by owner, then by name.
KeyLess(k1, k2) == k1[1] < k2[1] \/ (k1[1] = k2[1] /\ k1[2] < k2[2])

RECURSIVE SortItems(_)
SortItems(items) ==
    IF items = <<>> THEN <<>>
    ELSE LET i == CHOOSE i \in DOMAIN items :
                      \A j \in DOMAIN items : j = i \/ KeyLess(items[i][1], items[j][1])
             rest == [j \in 1..(Len(items) - 1) |-> IF j < i THEN items[j] ELSE items[j + 1]]
         IN <<items[i]>> \o SortItems(rest)

\* A dict with free keys (AppState.data), as opposed to the fixed-field dicts
\* the encode() methods return, which are records.
Dict(items) == [dict |-> items]

\* Mutant of get_deterministic_bytes: json.dumps without sort_keys
get_insertion_bytes(data) ==
    IF "dict" \in DOMAIN data THEN data.dict ELSE data

\* json.dumps(data, sort_keys=True, separators=(',', ':')): a dict held as a
\* sequence of items is written in key order, whatever its insertion order; a
\* record of fixed fields has one written form.
get_deterministic_bytes(data) ==
    IF "dict" \in DOMAIN data THEN SortItems(data.dict) ELSE data

hash_data(data) == <<"sha256", get_deterministic_bytes(data)>>

full_payload(message, context, chain_id) ==
    [prefix |-> context \o <<":">> \o chain_id \o <<":">>,
     msg    |-> get_deterministic_bytes(message)]

sign(key, message, context, chain_id) ==
    [signer |-> key, payload |-> full_payload(message, context, chain_id)]

verify(public_key_hex, signature_hex, message, context, chain_id) ==
    /\ public_key_hex \in Keys
    /\ signature_hex = sign(public_key_hex, message, context, chain_id)

-----------------------------------------------------------------------------
(* execution.py *)

Transaction(sender, key, value, signature) ==
    [sender |-> sender, key |-> key, value |-> value, signature |-> signature]

tx_encode(tx) == [sender |-> tx.sender, key |-> tx.key, value |-> tx.value]

\* self.data[key] = value on an insertion-ordered dict
dict_set(data, key, value) ==
    IF \E i \in DOMAIN data : data[i][1] = key
    THEN [i \in DOMAIN data |-> IF data[i][1] = key THEN <<key, value>> ELSE data[i]]
    ELSE Append(data, <<key, value>>)

\* Mutant of apply_tx: the map is written before the signature is verified
apply_tx_write_first(data, tx, chain_id) ==
    IF tx.key[1] # tx.sender THEN [ok |-> FALSE, data |-> data]
    ELSE [ok   |-> verify(tx.sender, tx.signature, tx_encode(tx), CTX_TX, chain_id),
          data |-> dict_set(data, tx.key, tx.value)]

\* [ok, data]: the return value and the map after the call
apply_tx(data, tx, chain_id) ==
    IF tx.key[1] # tx.sender THEN [ok |-> FALSE, data |-> data]
    ELSE IF ~verify(tx.sender, tx.signature, tx_encode(tx), CTX_TX, chain_id)
         THEN [ok |-> FALSE, data |-> data]
         ELSE [ok |-> TRUE, data |-> dict_set(data, tx.key, tx.value)]

RECURSIVE apply_all(_, _, _)
apply_all(data, txs, chain_id) ==
    IF txs = <<>> THEN data
    ELSE apply_all(apply_tx(data, Head(txs), chain_id).data, Tail(txs), chain_id)

get_commitment(data) == hash_data(Dict(data))

-----------------------------------------------------------------------------
(* consensus.py: headers and votes *)

BlockHeader(parent_hash, height, state_hash, proposer, signature) ==
    [parent_hash |-> parent_hash, height |-> height, state_hash |-> state_hash,
     proposer |-> proposer, signature |-> signature]

header_encode(h) ==
    [parent_hash |-> h.parent_hash, height |-> h.height,
     state_hash |-> h.state_hash, proposer |-> h.proposer]

header_hash(h) == hash_data(header_encode(h))

Vote(validator, height, block_hash, phase, signature) ==
    [validator |-> validator, height |-> height, block_hash |-> block_hash,
     phase |-> phase, signature |-> signature]

vote_encode(v) ==
    [validator |-> v.validator, height |-> v.height,
     block_hash |-> v.block_hash, phase |-> v.phase]

\* Mutant of build_block: execution stops at the first rejected transaction
RECURSIVE apply_until_rejected(_, _, _)
apply_until_rejected(data, txs, chain_id) ==
    IF txs = <<>> THEN data
    ELSE IF ~apply_tx(data, Head(txs), chain_id).ok THEN data
    ELSE apply_until_rejected(apply_tx(data, Head(txs), chain_id).data, Tail(txs), chain_id)

build_block_until_rejected(parent_header, txs, proposer_key, chain_id) ==
    LET state == apply_until_rejected(<<>>, txs, chain_id)
        unsigned == BlockHeader(header_hash(parent_header), parent_header.height + 1,
                                get_commitment(state), proposer_key, EmptyStr)
    IN [header |-> [unsigned EXCEPT !.signature =
                        sign(proposer_key, header_encode(unsigned), CTX_HEADER, chain_id)],
        state  |-> state]

\* execution.py: build_block starts from a fresh AppState
build_block(parent_header, txs, proposer_key, chain_id) ==
    LET state == apply_all(<<>>, txs, chain_id)
        unsigned == BlockHeader(header_hash(parent_header), parent_header.height + 1,
                                get_commitment(state), proposer_key, EmptyStr)
    IN [header |-> [unsigned EXCEPT !.signature =
                        sign(proposer_key, header_encode(unsigned), CTX_HEADER, chain_id)],
        state  |-> state]

-----------------------------------------------------------------------------
(* consensus.py: ConsensusState *)

ConsensusState(validator_set, chain_id) ==
    [validator_set    |-> validator_set,
     chain_id         |-> chain_id,
     prevotes         |-> [h \in Heights |-> <<>>],
     precommits       |-> [h \in Heights |-> <<>>],
     finalized_blocks |-> [h \in Heights |-> None]]

\* tally[bh] after the counting loop
tally_count(votes, bh) == Cardinality({i \in DOMAIN votes : votes[i].block_hash = bh})

\* The keys of tally in the order tally.items() yields them: each block hash
\* at the place of its first vote.
tally_keys(votes) ==
    {i \in DOMAIN votes : \A j \in 1..(i - 1) : votes[j].block_hash # votes[i].block_hash}

\* Mutants of majority: half the validators, half rounded up, two thirds
majority_half(cs) == Cardinality(cs.validator_set) \div 2

majority_ceil(cs) == (Cardinality(cs.validator_set) + 1) \div 2

majority_two_thirds(cs) == (2 * Cardinality(cs.validator_set)) \div 3 + 1

majority(cs) == Cardinality(cs.validator_set) \div 2 + 1

\* Mutant of try_finalize: the loop over the tally ends after its first key
try_finalize_first_key(cs, height) ==
    LET votes == cs.precommits[height]
        bh    == votes[1].block_hash
        prev  == cs.finalized_blocks[height]
    IN IF votes = <<>>
       THEN [cs |-> cs, result |-> cs.finalized_blocks[height], raised |-> FALSE]
       ELSE IF tally_count(votes, bh) >= majority(cs)
            THEN IF Truthy(prev) /\ prev # bh
                 THEN [cs |-> cs, result |-> None, raised |-> TRUE]
                 ELSE [cs |-> [cs EXCEPT !.finalized_blocks[height] = bh],
                       result |-> bh, raised |-> FALSE]
            ELSE [cs |-> cs, result |-> cs.finalized_blocks[height], raised |-> FALSE]

\* Mutant of try_finalize: any earlier finalization at the height raises
try_finalize_strict(cs, height) ==
    LET votes == cs.precommits[height]
        hits  == {i \in tally_keys(votes) :
                      tally_count(votes, votes[i].block_hash) >= majority(cs)}
        first == CHOOSE i \in hits : \A j \in hits : i <= j
        bh    == votes[first].block_hash
        prev  == cs.finalized_blocks[height]
    IN IF votes = <<>>
       THEN [cs |-> cs, result |-> cs.finalized_blocks[height], raised |-> FALSE]
       ELSE IF hits # {}
            THEN IF Truthy(prev)
                 THEN [cs |-> cs, result |-> None, raised |-> TRUE]
                 ELSE [cs |-> [cs EXCEPT !.finalized_blocks[height] = bh],
                       result |-> bh, raised |-> FALSE]
            ELSE [cs |-> cs, result |-> cs.finalized_blocks[height], raised |-> FALSE]

\* Mutant of try_finalize: a hash with a quorum is written over whatever the
\* height was finalized with
try_finalize_overwrite(cs, height) ==
    LET votes == cs.precommits[height]
        hits  == {i \in tally_keys(votes) :
                      tally_count(votes, votes[i].block_hash) >= majority(cs)}
        first == CHOOSE i \in hits : \A j \in hits : i <= j
        bh    == votes[first].block_hash
    IN IF votes = <<>>
       THEN [cs |-> cs, result |-> cs.finalized_blocks[height], raised |-> FALSE]
       ELSE IF hits # {}
            THEN [cs |-> [cs EXCEPT !.finalized_blocks[height] = bh],
                  result |-> bh, raised |-> FALSE]
            ELSE [cs |-> cs, result |-> cs.finalized_blocks[height], raised |-> FALSE]

\* Mutant of try_finalize: the previous commitment is looked up at every
\* height, not at the height of the call
try_finalize_any_height(cs, height) ==
    LET votes == cs.precommits[height]
        hits  == {i \in tally_keys(votes) :
                      tally_count(votes, votes[i].block_hash) >= majority(cs)}
        first == CHOOSE i \in hits : \A j \in hits : i <= j
        bh    == votes[first].block_hash
        prevs == {cs.finalized_blocks[h] : h \in Heights \ {0}}
    IN IF votes = <<>>
       THEN [cs |-> cs, result |-> cs.finalized_blocks[height], raised |-> FALSE]
       ELSE IF hits # {}
            THEN IF \E prev \in prevs : Truthy(prev) /\ prev # bh
                 THEN [cs |-> cs, result |-> None, raised |-> TRUE]
                 ELSE [cs |-> [cs EXCEPT !.finalized_blocks[height] = bh],
                       result |-> bh, raised |-> FALSE]
            ELSE [cs |-> cs, result |-> cs.finalized_blocks[height], raised |-> FALSE]

\* Mutant of try_finalize: the prevotes are tallied with the precommits
try_finalize_both_phases(cs, height) ==
    LET votes == cs.prevotes[height] \o cs.precommits[height]
        hits  == {i \in tally_keys(votes) :
                      tally_count(votes, votes[i].block_hash) >= majority(cs)}
        first == CHOOSE i \in hits : \A j \in hits : i <= j
        bh    == votes[first].block_hash
        prev  == cs.finalized_blocks[height]
    IN IF votes = <<>>
       THEN [cs |-> cs, result |-> cs.finalized_blocks[height], raised |-> FALSE]
       ELSE IF hits # {}
            THEN IF Truthy(prev) /\ prev # bh
                 THEN [cs |-> cs, result |-> None, raised |-> TRUE]
                 ELSE [cs |-> [cs EXCEPT !.finalized_blocks[height] = bh],
                       result |-> bh, raised |-> FALSE]
            ELSE [cs |-> cs, result |-> cs.finalized_blocks[height], raised |-> FALSE]

\* Mutant of try_finalize: a quorum for one hash with a precommit for another
\* hash in the tally is a violation, whether or not the height is finalized
try_finalize_split_tally(cs, height) ==
    LET votes == cs.precommits[height]
        hits  == {i \in tally_keys(votes) :
                      tally_count(votes, votes[i].block_hash) >= majority(cs)}
        first == CHOOSE i \in hits : \A j \in hits : i <= j
        bh    == votes[first].block_hash
        prev  == cs.finalized_blocks[height]
    IN IF votes = <<>>
       THEN [cs |-> cs, result |-> cs.finalized_blocks[height], raised |-> FALSE]
       ELSE IF hits # {}
            THEN IF \/ Truthy(prev) /\ prev # bh
                    \/ \E i \in DOMAIN votes : votes[i].block_hash # bh
                 THEN [cs |-> cs, result |-> None, raised |-> TRUE]
                 ELSE [cs |-> [cs EXCEPT !.finalized_blocks[height] = bh],
                       result |-> bh, raised |-> FALSE]
            ELSE [cs |-> cs, result |-> cs.finalized_blocks[height], raised |-> FALSE]

\* Mutant of try_finalize: the precommits of a height are counted together,
\* whatever hash they are for
try_finalize_count_all(cs, height) ==
    LET votes == cs.precommits[height]
        hits  == {i \in tally_keys(votes) : Len(votes) >= majority(cs)}
        first == CHOOSE i \in hits : \A j \in hits : i <= j
        bh    == votes[first].block_hash
        prev  == cs.finalized_blocks[height]
    IN IF votes = <<>>
       THEN [cs |-> cs, result |-> cs.finalized_blocks[height], raised |-> FALSE]
       ELSE IF hits # {}
            THEN IF Truthy(prev) /\ prev # bh
                 THEN [cs |-> cs, result |-> None, raised |-> TRUE]
                 ELSE [cs |-> [cs EXCEPT !.finalized_blocks[height] = bh],
                       result |-> bh, raised |-> FALSE]
            ELSE [cs |-> cs, result |-> cs.finalized_blocks[height], raised |-> FALSE]

\* [cs, result, raised]: the state after the call, the value returned, and
\* whether the call raised the SAFETY VIOLATION exception instead of returning
try_finalize(cs, height) ==
    LET votes == cs.precommits[height]
        hits  == {i \in tally_keys(votes) :
                      tally_count(votes, votes[i].block_hash) >= majority(cs)}
        first == CHOOSE i \in hits : \A j \in hits : i <= j
        bh    == votes[first].block_hash
        prev  == cs.finalized_blocks[height]
    IN IF votes = <<>>
       THEN [cs |-> cs, result |-> cs.finalized_blocks[height], raised |-> FALSE]
       ELSE IF hits # {}
            THEN IF Truthy(prev) /\ prev # bh
                 THEN [cs |-> cs, result |-> None, raised |-> TRUE]
                 ELSE [cs |-> [cs EXCEPT !.finalized_blocks[height] = bh],
                       result |-> bh, raised |-> FALSE]
            ELSE [cs |-> cs, result |-> cs.finalized_blocks[height], raised |-> FALSE]

\* Mutant of handle_vote: prevotes are counted with the precommits
handle_vote_one_tally(cs, vote) ==
    IF vote.validator \notin cs.validator_set
    THEN [cs |-> cs, result |-> FALSE, raised |-> FALSE]
    ELSE IF ~verify(vote.validator, vote.signature, vote_encode(vote), CTX_VOTE, cs.chain_id)
    THEN [cs |-> cs, result |-> FALSE, raised |-> FALSE]
    ELSE IF vote.phase \in {PREVOTE, PRECOMMIT}
    THEN LET stored == [cs EXCEPT !.precommits[vote.height] = Append(@, vote)]
             fin    == try_finalize(stored, vote.height)
         IN [cs |-> fin.cs, result |-> TRUE, raised |-> fin.raised]
    ELSE [cs |-> cs, result |-> TRUE, raised |-> FALSE]

\* Mutant of handle_vote: the validator set is not consulted
handle_vote_any_key(cs, vote) ==
    IF ~verify(vote.validator, vote.signature, vote_encode(vote), CTX_VOTE, cs.chain_id)
    THEN [cs |-> cs, result |-> FALSE, raised |-> FALSE]
    ELSE IF vote.phase = PREVOTE
    THEN [cs |-> [cs EXCEPT !.prevotes[vote.height] = Append(@, vote)],
          result |-> TRUE, raised |-> FALSE]
    ELSE IF vote.phase = PRECOMMIT
    THEN LET stored == [cs EXCEPT !.precommits[vote.height] = Append(@, vote)]
             fin    == try_finalize(stored, vote.height)
         IN [cs |-> fin.cs, result |-> TRUE, raised |-> fin.raised]
    ELSE [cs |-> cs, result |-> TRUE, raised |-> FALSE]

\* Mutant of handle_vote: a precommit is stored without try_finalize being called
handle_vote_no_finalize(cs, vote) ==
    IF vote.validator \notin cs.validator_set
    THEN [cs |-> cs, result |-> FALSE, raised |-> FALSE]
    ELSE IF ~verify(vote.validator, vote.signature, vote_encode(vote), CTX_VOTE, cs.chain_id)
    THEN [cs |-> cs, result |-> FALSE, raised |-> FALSE]
    ELSE IF vote.phase = PREVOTE
    THEN [cs |-> [cs EXCEPT !.prevotes[vote.height] = Append(@, vote)],
          result |-> TRUE, raised |-> FALSE]
    ELSE IF vote.phase = PRECOMMIT
    THEN [cs |-> [cs EXCEPT !.precommits[vote.height] = Append(@, vote)],
          result |-> TRUE, raised |-> FALSE]
    ELSE [cs |-> cs, result |-> TRUE, raised |-> FALSE]

\* Mutant of handle_vote: a precommit that is already in the tally of its
\* height is not appended again
handle_vote_dedup(cs, vote) ==
    IF vote.validator \notin cs.validator_set
    THEN [cs |-> cs, result |-> FALSE, raised |-> FALSE]
    ELSE IF ~verify(vote.validator, vote.signature, vote_encode(vote), CTX_VOTE, cs.chain_id)
    THEN [cs |-> cs, result |-> FALSE, raised |-> FALSE]
    ELSE IF vote.phase = PREVOTE
    THEN [cs |-> [cs EXCEPT !.prevotes[vote.height] = Append(@, vote)],
          result |-> TRUE, raised |-> FALSE]
    ELSE IF vote.phase = PRECOMMIT
    THEN LET held   == \E i \in DOMAIN cs.precommits[vote.height] :
                           cs.precommits[vote.height][i] = vote
             stored == IF held THEN cs
                       ELSE [cs EXCEPT !.precommits[vote.height] = Append(@, vote)]
             fin    == try_finalize(stored, vote.height)
         IN [cs |-> fin.cs, result |-> TRUE, raised |-> fin.raised]
    ELSE [cs |-> cs, result |-> TRUE, raised |-> FALSE]

\* [cs, result, raised]
handle_vote(cs, vote) ==
    IF vote.validator \notin cs.validator_set
    THEN [cs |-> cs, result |-> FALSE, raised |-> FALSE]
    ELSE IF ~verify(vote.validator, vote.signature, vote_encode(vote), CTX_VOTE, cs.chain_id)
    THEN [cs |-> cs, result |-> FALSE, raised |-> FALSE]
    ELSE IF vote.phase = PREVOTE
    THEN [cs |-> [cs EXCEPT !.prevotes[vote.height] = Append(@, vote)],
          result |-> TRUE, raised |-> FALSE]
    ELSE IF vote.phase = PRECOMMIT
    THEN LET stored == [cs EXCEPT !.precommits[vote.height] = Append(@, vote)]
             fin    == try_finalize(stored, vote.height)
         IN [cs |-> fin.cs, result |-> TRUE, raised |-> fin.raised]
    ELSE [cs |-> cs, result |-> TRUE, raised |-> FALSE]

-----------------------------------------------------------------------------
(* node.py: BlockchainNode *)

\* The genesis header: no parent, height 0, the commitment of the empty state,
\* the proposer "genesis" (0, the key of no one) and the signature ""
genesis == BlockHeader(ZeroHash, 0, get_commitment(<<>>), 0, EmptyStr)

BlockchainNode(key, validator_set, chain_id) ==
    [key            |-> key,
     chain_id       |-> chain_id,
     consensus      |-> [ConsensusState(validator_set, chain_id)
                            EXCEPT !.finalized_blocks[0] = header_hash(genesis)],
     state          |-> <<>>,
     blocks         |-> (header_hash(genesis) :> genesis),
     block_bodies   |-> (header_hash(genesis) :> <<>>),
     current_height |-> 0,
     pending_txs    |-> <<>>,
     seen_votes     |-> {}]

\* blocks[hash] = header on a dict: a new key is added, an old one overwritten
store(dict, key, value) == (key :> value) @@ dict

\* Mutant of receive_transaction: the transaction is tried on the live state
receive_transaction_live(nd, tx) ==
    IF apply_tx(nd.state, tx, nd.chain_id).ok
    THEN [node |-> [nd EXCEPT !.state = apply_tx(nd.state, tx, nd.chain_id).data,
                              !.pending_txs = Append(@, tx)],
          result |-> TRUE]
    ELSE [node |-> nd, result |-> FALSE]

\* [node, result]
receive_transaction(nd, tx) ==
    IF apply_tx(nd.state, tx, nd.chain_id).ok
    THEN [node |-> [nd EXCEPT !.pending_txs = Append(@, tx)], result |-> TRUE]
    ELSE [node |-> nd, result |-> FALSE]

\* Mutant of propose_block: the body is stored as the pending list itself and
\* not as a copy, so that emptying the list empties the stored body
propose_block_aliased(nd, parent_hash) ==
    IF parent_hash \notin DOMAIN nd.blocks
    THEN [node |-> nd, is_none |-> TRUE, result |-> genesis]
    ELSE LET header == build_block(nd.blocks[parent_hash], nd.pending_txs,
                                   nd.key, nd.chain_id).header
         IN [node |-> [nd EXCEPT
                          !.blocks = store(@, header_hash(header), header),
                          !.block_bodies = store(@, header_hash(header), <<>>),
                          !.pending_txs = <<>>],
             is_none |-> FALSE, result |-> header]

\* Mutant of propose_block: the proposer moves to the height of its proposal
propose_block_advances(nd, parent_hash) ==
    IF parent_hash \notin DOMAIN nd.blocks
    THEN [node |-> nd, is_none |-> TRUE, result |-> genesis]
    ELSE LET header == build_block(nd.blocks[parent_hash], nd.pending_txs,
                                   nd.key, nd.chain_id).header
         IN [node |-> [nd EXCEPT
                          !.blocks = store(@, header_hash(header), header),
                          !.block_bodies = store(@, header_hash(header), nd.pending_txs),
                          !.pending_txs = <<>>,
                          !.current_height = Max(@, header.height)],
             is_none |-> FALSE, result |-> header]

\* [node, is_none, result]: the call returns None (result is then unused), or
\* the header result
propose_block(nd, parent_hash) ==
    IF parent_hash \notin DOMAIN nd.blocks
    THEN [node |-> nd, is_none |-> TRUE, result |-> genesis]
    ELSE LET header == build_block(nd.blocks[parent_hash], nd.pending_txs,
                                   nd.key, nd.chain_id).header
         IN [node |-> [nd EXCEPT
                          !.blocks = store(@, header_hash(header), header),
                          !.block_bodies = store(@, header_hash(header), nd.pending_txs),
                          !.pending_txs = <<>>],
             is_none |-> FALSE, result |-> header]

\* Mutant of receive_block: the state hash is not recomputed
receive_block_unexecuted(nd, header, txs) ==
    IF header_hash(header) \in DOMAIN nd.blocks
    THEN [node |-> nd, result |-> TRUE]
    ELSE IF header.parent_hash \notin DOMAIN nd.blocks
    THEN [node |-> nd, result |-> FALSE]
    ELSE IF ~verify(header.proposer, header.signature, header_encode(header),
                    CTX_HEADER, nd.chain_id)
    THEN [node |-> nd, result |-> FALSE]
    ELSE [node |-> [nd EXCEPT
                       !.blocks = store(@, header_hash(header), header),
                       !.block_bodies = store(@, header_hash(header), txs)],
          result |-> TRUE]

\* Mutant of receive_block: a header that is already stored is checked and
\* stored again like a new one
receive_block_again(nd, header, txs) ==
    IF header.parent_hash \notin DOMAIN nd.blocks
    THEN [node |-> nd, result |-> FALSE]
    ELSE IF ~verify(header.proposer, header.signature, header_encode(header),
                    CTX_HEADER, nd.chain_id)
    THEN [node |-> nd, result |-> FALSE]
    ELSE IF build_block(nd.blocks[header.parent_hash], txs, nd.key,
                        nd.chain_id).header.state_hash # header.state_hash
    THEN [node |-> nd, result |-> FALSE]
    ELSE [node |-> [nd EXCEPT
                       !.blocks = store(@, header_hash(header), header),
                       !.block_bodies = store(@, header_hash(header), txs)],
          result |-> TRUE]

\* Mutant of receive_block: the parent is not looked up; the state hash,
\* which does not depend on the parent, is recomputed over genesis
receive_block_orphan(nd, header, txs) ==
    IF header_hash(header) \in DOMAIN nd.blocks
    THEN [node |-> nd, result |-> TRUE]
    ELSE IF ~verify(header.proposer, header.signature, header_encode(header),
                    CTX_HEADER, nd.chain_id)
    THEN [node |-> nd, result |-> FALSE]
    ELSE IF build_block(genesis, txs, nd.key, nd.chain_id).header.state_hash # header.state_hash
    THEN [node |-> nd, result |-> FALSE]
    ELSE [node |-> [nd EXCEPT
                       !.blocks = store(@, header_hash(header), header),
                       !.block_bodies = store(@, header_hash(header), txs)],
          result |-> TRUE]

\* [node, result]
receive_block(nd, header, txs) ==
    IF header_hash(header) \in DOMAIN nd.blocks
    THEN [node |-> nd, result |-> TRUE]
    ELSE IF header.parent_hash \notin DOMAIN nd.blocks
    THEN [node |-> nd, result |-> FALSE]
    ELSE IF ~verify(header.proposer, header.signature, header_encode(header),
                    CTX_HEADER, nd.chain_id)
    THEN [node |-> nd, result |-> FALSE]
    ELSE IF build_block(nd.blocks[header.parent_hash], txs, nd.key,
                        nd.chain_id).header.state_hash # header.state_hash
    THEN [node |-> nd, result |-> FALSE]
    ELSE [node |-> [nd EXCEPT
                       !.blocks = store(@, header_hash(header), header),
                       !.block_bodies = store(@, header_hash(header), txs)],
          result |-> TRUE]

create_vote(nd, block_hash, height, phase) ==
    LET vote == Vote(nd.key, height, block_hash, phase, BadSig)
    IN [vote EXCEPT !.signature = sign(nd.key, vote_encode(vote), CTX_VOTE, nd.chain_id)]

vote_id(vote) == <<vote.validator, vote.height, vote.phase, vote.block_hash>>

\* Mutant of finalize_block: the block is executed on a fresh state, as
\* build_block does, and the result replaces the live state
finalize_block_fresh(nd, height, block_hash) ==
    IF block_hash \notin DOMAIN nd.blocks THEN nd
    ELSE [nd EXCEPT
             !.state = apply_all(<<>>, nd.block_bodies[block_hash], nd.chain_id),
             !.current_height = Max(@, height)]

\* Mutant of finalize_block: current_height is set to the height finalized
finalize_block_assign(nd, height, block_hash) ==
    IF block_hash \notin DOMAIN nd.blocks THEN nd
    ELSE [nd EXCEPT
             !.state = apply_all(@, nd.block_bodies[block_hash], nd.chain_id),
             !.current_height = height]

finalize_block(nd, height, block_hash) ==
    IF block_hash \notin DOMAIN nd.blocks THEN nd
    ELSE [nd EXCEPT
             !.state = apply_all(@, nd.block_bodies[block_hash], nd.chain_id),
             !.current_height = Max(@, height)]

\* Mutant of receive_vote: the vote is never added to seen_votes
receive_vote_unrecorded(nd, vote) ==
    IF vote_id(vote) \in nd.seen_votes
    THEN [node |-> nd, result |-> FALSE, raised |-> FALSE]
    ELSE LET hv   == handle_vote(nd.consensus, vote)
             seen == [nd EXCEPT !.consensus = hv.cs]
             finalized_hash == hv.cs.finalized_blocks[vote.height]
         IN IF hv.raised
            THEN [node |-> [nd EXCEPT !.consensus = hv.cs],
                  result |-> FALSE, raised |-> TRUE]
            ELSE IF hv.result
            THEN [node |-> IF Truthy(finalized_hash) /\ finalized_hash = vote.block_hash
                           THEN finalize_block(seen, vote.height, finalized_hash)
                           ELSE seen,
                  result |-> TRUE, raised |-> FALSE]
            ELSE [node |-> nd, result |-> FALSE, raised |-> FALSE]

\* Mutant of receive_vote: the exception of handle_vote is caught and the
\* vote is answered with False
receive_vote_catching(nd, vote) ==
    IF vote_id(vote) \in nd.seen_votes
    THEN [node |-> nd, result |-> FALSE, raised |-> FALSE]
    ELSE LET hv   == handle_vote(nd.consensus, vote)
             seen == [nd EXCEPT !.consensus = hv.cs,
                                !.seen_votes = @ \cup {vote_id(vote)}]
             finalized_hash == hv.cs.finalized_blocks[vote.height]
         IN IF hv.raised
            THEN [node |-> [nd EXCEPT !.consensus = hv.cs],
                  result |-> FALSE, raised |-> FALSE]
            ELSE IF hv.result
            THEN [node |-> IF Truthy(finalized_hash) /\ finalized_hash = vote.block_hash
                           THEN finalize_block(seen, vote.height, finalized_hash)
                           ELSE seen,
                  result |-> TRUE, raised |-> FALSE]
            ELSE [node |-> nd, result |-> FALSE, raised |-> FALSE]

\* Mutant of receive_vote: the vote is recorded as seen before handle_vote is
\* called
receive_vote_seen_first(nd, vote) ==
    IF vote_id(vote) \in nd.seen_votes
    THEN [node |-> nd, result |-> FALSE, raised |-> FALSE]
    ELSE LET hv   == handle_vote(nd.consensus, vote)
             seen == [nd EXCEPT !.consensus = hv.cs,
                                !.seen_votes = @ \cup {vote_id(vote)}]
             finalized_hash == hv.cs.finalized_blocks[vote.height]
         IN IF hv.raised
            THEN [node |-> seen, result |-> FALSE, raised |-> TRUE]
            ELSE IF hv.result
            THEN [node |-> IF Truthy(finalized_hash) /\ finalized_hash = vote.block_hash
                           THEN finalize_block(seen, vote.height, finalized_hash)
                           ELSE seen,
                  result |-> TRUE, raised |-> FALSE]
            ELSE [node |-> [nd EXCEPT !.seen_votes = @ \cup {vote_id(vote)}],
                  result |-> FALSE, raised |-> FALSE]

\* [node, result, raised]: when handle_vote raises, the exception passes
\* through receive_vote, so nothing after the handle_vote call runs
receive_vote(nd, vote) ==
    IF vote_id(vote) \in nd.seen_votes
    THEN [node |-> nd, result |-> FALSE, raised |-> FALSE]
    ELSE LET hv   == handle_vote(nd.consensus, vote)
             seen == [nd EXCEPT !.consensus = hv.cs,
                                !.seen_votes = @ \cup {vote_id(vote)}]
             finalized_hash == hv.cs.finalized_blocks[vote.height]
         IN IF hv.raised
            THEN [node |-> [nd EXCEPT !.consensus = hv.cs],
                  result |-> FALSE, raised |-> TRUE]
            ELSE IF hv.result
            THEN [node |-> IF Truthy(finalized_hash) /\ finalized_hash = vote.block_hash
                           THEN finalize_block(seen, vote.height, finalized_hash)
                           ELSE seen,
                  result |-> TRUE, raised |-> FALSE]
            ELSE [node |-> nd, result |-> FALSE, raised |-> FALSE]

-----------------------------------------------------------------------------
(* The system: the nodes, the votes that have been signed and the blocks that
   have been proposed. Every ingress runs to completion; a node on which the
   SAFETY VIOLATION exception was raised takes no further calls. *)

validator_set == node[1].consensus.validator_set

InitNodes ==
    /\ \E n \in 1..MaxValidators :
           node = [i \in Nodes |-> BlockchainNode(i, 1..n, CHAIN_ID)]
    /\ raised = [i \in Nodes |-> FALSE]
    /\ signed = {}
    /\ proposed = {}

\* The node that holds key k: one of Nodes, or a node of which only the key
\* matters here
NodeOf(k) == IF k \in Nodes THEN node[k] ELSE BlockchainNode(k, validator_set, CHAIN_ID)

\* The block node 1 proposes over genesis while it has no pending transaction
BlockB == build_block(genesis, <<>>, 1, CHAIN_ID).header

HashB == header_hash(BlockB)

\* The validators that signed precommits for two block hashes at one height
Equivocators(votes) ==
    {v.validator : v \in {v \in votes : \E w \in votes :
                              /\ w.validator = v.validator /\ w.height = v.height
                              /\ w.phase = PRECOMMIT /\ v.phase = PRECOMMIT
                              /\ w.block_hash # v.block_hash}}

\* Votes no node accepts: a validator's vote with a broken signature, with
\* the signature of another key, and the well-signed vote of a key outside
\* the validator set
RejectedVotes ==
    LET outsider == Cardinality(validator_set) + 1
        unsigned == Vote(1, 1, HashA, PRECOMMIT, BadSig)
    IN {unsigned,
        [unsigned EXCEPT !.signature = sign(outsider, vote_encode(unsigned), CTX_VOTE, CHAIN_ID)],
        create_vote(BlockchainNode(outsider, validator_set, CHAIN_ID), HashA, 1, PRECOMMIT)}

\* create_vote on the node of validator k. Validator 1 may sign anything; the
\* others sign at most one precommit per height.
CreateVote(k, block_hash, height, phase) ==
    LET vote == create_vote(NodeOf(k), block_hash, height, phase)
    IN /\ k \in Nodes => ~raised[k]
       /\ vote \notin signed
       /\ Cardinality(signed) < MaxVotes
       /\ Equivocators(signed \cup {vote}) \subseteq {1}
       /\ signed' = signed \cup {vote}
       /\ UNCHANGED <<node, raised, proposed>>

ReceiveVote(n, vote) ==
    LET r == receive_vote(node[n], vote)
    IN /\ ~raised[n]
       /\ node' = [node EXCEPT ![n] = r.node]
       /\ raised' = [raised EXCEPT ![n] = r.raised]
       /\ UNCHANGED <<signed, proposed>>

ProposeBlock(n, parent_hash) ==
    LET r == propose_block(node[n], parent_hash)
    IN /\ ~raised[n]
       /\ node' = [node EXCEPT ![n] = r.node]
       /\ proposed' = IF r.is_none THEN proposed
                      ELSE proposed \cup {[header |-> r.result,
                                           txs |-> r.node.block_bodies[header_hash(r.result)]]}
       /\ UNCHANGED <<raised, signed>>

ReceiveBlock(n, header, txs) ==
    LET r == receive_block(node[n], header, txs)
    IN /\ ~raised[n]
       /\ node' = [node EXCEPT ![n] = r.node]
       /\ UNCHANGED <<raised, signed, proposed>>

-----------------------------------------------------------------------------
(* Spec: two nodes of one chain. Validators sign precommits at height 1 for
   the proposed block or for another hash; the network hands every signed
   vote and every proposed block to either node any number of times, in any
   order, or never. *)

Init == InitNodes

Next ==
    \/ \E k \in validator_set, bh \in {HashA, HashB} : CreateVote(k, bh, 1, PRECOMMIT)
    \/ \E n \in Nodes, v \in signed \cup RejectedVotes : ReceiveVote(n, v)
    \/ ProposeBlock(1, header_hash(genesis))
    \/ \E n \in Nodes, b \in proposed : ReceiveBlock(n, b.header, b.txs)

Spec == Init /\ [][Next]_vars

-----------------------------------------------------------------------------
(* SpecNode: one node and every vote a validator can sign, for either phase
   and for the proposed block, another hash or the empty string as block
   hash, handed to receive_vote in any order, any number of times. *)

VoteHashes == {HashA, HashB, EmptyStr}

ValidVotes ==
    {create_vote(NodeOf(k), bh, h, ph) :
        k \in validator_set, bh \in VoteHashes, h \in VoteHeights, ph \in {PREVOTE, PRECOMMIT}}

\* The number of votes held in the tallies of a consensus state
StoredVotes(cs) ==
    Cardinality({<<h, i>> \in Heights \X (1..MaxVotes) : i \in DOMAIN cs.prevotes[h]})
    + Cardinality({<<h, i>> \in Heights \X (1..MaxVotes) : i \in DOMAIN cs.precommits[h]})

NextNode ==
    \E v \in ValidVotes \cup RejectedVotes :
        /\ StoredVotes(node[1].consensus) < MaxVotes
        /\ ReceiveVote(1, v)

SpecNode == Init /\ [][NextNode]_vars

-----------------------------------------------------------------------------
(* SpecCons: the consensus state of a node driven through the node
   (receive_vote) and directly (handle_vote, try_finalize), as the unit tests
   of the consensus state do. *)

HandleVote(n, vote) ==
    LET r == handle_vote(node[n].consensus, vote)
    IN /\ ~raised[n]
       /\ node' = [node EXCEPT ![n].consensus = r.cs]
       /\ raised' = [raised EXCEPT ![n] = r.raised]
       /\ UNCHANGED <<signed, proposed>>

TryFinalize(n, height) ==
    LET r == try_finalize(node[n].consensus, height)
    IN /\ ~raised[n]
       /\ node' = [node EXCEPT ![n].consensus = r.cs]
       /\ raised' = [raised EXCEPT ![n] = r.raised]
       /\ UNCHANGED <<signed, proposed>>

\* The votes of SpecCons: precommits for two block hashes, one of them the
\* empty string, and prevotes for the first
ConsVotes ==
    {v \in ValidVotes : \/ v.phase = PRECOMMIT /\ v.block_hash \in {HashA, EmptyStr}
                        \/ v.phase = PREVOTE /\ v.block_hash = HashA}

NextCons ==
    \/ \E v \in ConsVotes \cup RejectedVotes :
           /\ StoredVotes(node[1].consensus) < MaxVotes
           /\ ReceiveVote(1, v)
    \/ \E v \in ConsVotes \cup RejectedVotes :
           /\ StoredVotes(node[1].consensus) < MaxVotes
           /\ HandleVote(1, v)
    \/ \E h \in Heights : TryFinalize(1, h)

SpecCons == Init /\ [][NextCons]_vars

-----------------------------------------------------------------------------
(* SpecChain: two nodes of one chain with transactions. Node 1 is handed
   transactions and proposes blocks over genesis; validators precommit a
   block that was proposed, each for one block only; the network hands the
   blocks and the votes to either node in any order. *)

\* A transaction of key 1 on a key it owns, signed by key 1 for this chain
TxValid ==
    LET unsigned == Transaction(1, <<1, 1>>, 1, BadSig)
    IN [unsigned EXCEPT !.signature = sign(1, tx_encode(unsigned), CTX_TX, CHAIN_ID)]

\* Transactions no node accepts: a broken signature, a key owned by another
\* sender, a signature made for another chain
RejectedTxs ==
    LET unsigned == Transaction(1, <<1, 1>>, 1, BadSig)
        foreign  == Transaction(1, <<2, 1>>, 1, BadSig)
    IN {unsigned,
        [foreign EXCEPT !.signature = sign(1, tx_encode(foreign), CTX_TX, CHAIN_ID)],
        [unsigned EXCEPT !.signature = sign(1, tx_encode(unsigned), CTX_TX, OTHER_CHAIN)]}

ReceiveTransaction(n, tx) ==
    LET r == receive_transaction(node[n], tx)
    IN /\ ~raised[n]
       /\ Len(node[n].pending_txs) < MaxPending
       /\ node' = [node EXCEPT ![n] = r.node]
       /\ UNCHANGED <<raised, signed, proposed>>

\* create_vote for a block that was proposed, by a validator that signs one
\* precommit per height
PrecommitProposed(k, header) ==
    /\ Equivocators(signed \cup {create_vote(NodeOf(k), header_hash(header), header.height, PRECOMMIT)}) = {}
    /\ CreateVote(k, header_hash(header), header.height, PRECOMMIT)

NextChain ==
    \/ \E tx \in {TxValid} \cup RejectedTxs : ReceiveTransaction(1, tx)
    \/ ProposeBlock(1, header_hash(genesis))
    \/ \E n \in Nodes, b \in proposed : ReceiveBlock(n, b.header, b.txs)
    \/ \E k \in validator_set, b \in proposed : PrecommitProposed(k, b.header)
    \/ \E n \in Nodes, v \in signed : ReceiveVote(n, v)

SpecChain == Init /\ [][NextChain]_vars

-----------------------------------------------------------------------------
(* SpecBlocks: node 1 is handed transactions and proposes blocks over any
   block it holds; the network hands each proposed header, as proposed or
   altered, with a body, as proposed or padded with a transaction that does
   not verify, to either node. *)

\* A transaction of key 1 that writes another value to the key of TxValid
TxRewrite ==
    LET unsigned == Transaction(1, <<1, 1>>, 2, BadSig)
    IN [unsigned EXCEPT !.signature = sign(1, tx_encode(unsigned), CTX_TX, CHAIN_ID)]

\* TxValid with its value changed after signing
TxForged == [TxValid EXCEPT !.value = 2]

\* A proposed header as the network may hand it over: as proposed, with a
\* broken signature, with another proposer, signed for another chain
BlockHeaders(header) ==
    {header,
     [header EXCEPT !.signature = BadSig],
     [header EXCEPT !.proposer = 2],
     [header EXCEPT !.signature = sign(header.proposer, header_encode(header), CTX_HEADER, OTHER_CHAIN)]}

\* The bodies the network may hand over with a header
BlockBodies == {b.txs : b \in proposed} \cup {Append(b.txs, TxForged) : b \in proposed}

\* propose_block over a block the node holds, or over a hash it does not hold
ProposeOver(n, parent_hash) ==
    /\ Cardinality(proposed) < MaxBlocks
    /\ parent_hash \in DOMAIN node[n].blocks => node[n].blocks[parent_hash].height < MaxHeight + 1
    /\ ProposeBlock(n, parent_hash)

NextBlocks ==
    \/ \E tx \in {TxValid} \cup RejectedTxs : ReceiveTransaction(1, tx)
    \/ \E parent_hash \in DOMAIN node[1].blocks \cup {HashA} : ProposeOver(1, parent_hash)
    \/ \E n \in Nodes, b \in proposed, txs \in BlockBodies :
           \E header \in BlockHeaders(b.header) : ReceiveBlock(n, header, txs)

SpecBlocks == Init /\ [][NextBlocks]_vars

-----------------------------------------------------------------------------
(* SpecReplay: node 1 proposes blocks as in SpecBlocks; node 2 is handed the
   proposed headers with bodies as proposed or padded, and the precommits of
   the validators for proposed blocks, one per validator and height, in any
   order. *)

NextReplay ==
    \/ ReceiveTransaction(1, TxValid)
    \/ \E parent_hash \in DOMAIN node[1].blocks : ProposeOver(1, parent_hash)
    \/ \E b \in proposed, txs \in BlockBodies : ReceiveBlock(2, b.header, txs)
    \/ \E k \in validator_set, b \in proposed : PrecommitProposed(k, b.header)
    \/ \E v \in signed : ReceiveVote(2, v)

SpecReplay == Init /\ [][NextReplay]_vars

-----------------------------------------------------------------------------
(* SpecGenesis: node 1 is handed precommits of the validators at height 0,
   for the genesis hash, for the hash of a block, for another hash and for
   the empty string, and the blocks node 2 proposes over genesis, as proposed
   or altered. *)

GenesisVotes ==
    {create_vote(NodeOf(k), bh, 0, PRECOMMIT) :
        k \in validator_set, bh \in VoteHashes \cup {header_hash(genesis)}}

NextGenesis ==
    \/ \E v \in GenesisVotes :
           /\ StoredVotes(node[1].consensus) < MaxVotes
           /\ ReceiveVote(1, v)
    \/ ProposeOver(2, header_hash(genesis))
    \/ \E b \in proposed : \E header \in BlockHeaders(b.header) :
           ReceiveBlock(1, header, b.txs)

SpecGenesis == Init /\ [][NextGenesis]_vars

-----------------------------------------------------------------------------
(* SpecHeights: node 1 is handed, in any order, precommits of the validators
   at two heights for two block hashes, and prevotes for the first, as the
   unit test of independent heights does with precommits. *)

HeightsVoted == Heights \ {0}

HeightsVotes ==
    {create_vote(NodeOf(k), bh, h, PRECOMMIT) :
        k \in validator_set, bh \in {HashA, HashB}, h \in HeightsVoted}
    \cup {create_vote(NodeOf(k), HashA, h, PREVOTE) : k \in validator_set, h \in HeightsVoted}

NextHeights ==
    \E v \in HeightsVotes :
        /\ StoredVotes(node[1].consensus) < MaxVotes
        /\ ReceiveVote(1, v)

SpecHeights == Init /\ [][NextHeights]_vars

-----------------------------------------------------------------------------
(* SpecPhases: node 1 is handed votes of the validators whose phase is any
   string: "prevote", "precommit", or another one. Vote.phase is a str and
   create_vote signs whatever phase it is given. *)

PhaseVotes ==
    {create_vote(NodeOf(k), bh, h, PRECOMMIT) :
        k \in validator_set, bh \in {HashA, HashB}, h \in VoteHeights}
    \cup {create_vote(NodeOf(k), HashA, h, ph) :
              k \in validator_set, h \in VoteHeights, ph \in {PREVOTE, "commit"}}

NextPhases ==
    \E v \in PhaseVotes :
        /\ StoredVotes(node[1].consensus) < MaxVotes
        /\ ReceiveVote(1, v)

SpecPhases == Init /\ [][NextPhases]_vars

-----------------------------------------------------------------------------
(* SpecForged: node 1 proposes blocks, and the network hands it headers that
   any key holder built by hand and signed with its own key: over any block
   the node holds, at any height, with the empty state and no transactions. *)

\* A header written and signed by the holder of key k
HeaderBy(k, parent_hash, height) ==
    LET unsigned == BlockHeader(parent_hash, height, get_commitment(<<>>), k, EmptyStr)
    IN [unsigned EXCEPT !.signature = sign(k, header_encode(unsigned), CTX_HEADER, CHAIN_ID)]

ForgedHeaders(n) ==
    {HeaderBy(k, parent_hash, height) :
        k \in Keys, parent_hash \in DOMAIN node[n].blocks, height \in Heights}

NextForged ==
    \/ \E parent_hash \in DOMAIN node[1].blocks : ProposeOver(1, parent_hash)
    \/ \E header \in ForgedHeaders(1) :
           /\ Cardinality(DOMAIN node[1].blocks) <= MaxBlocks
           /\ ReceiveBlock(1, header, <<>>)

SpecForged == Init /\ [][NextForged]_vars

-----------------------------------------------------------------------------
(* SpecAnyHeight: node 1 buffers a transaction and proposes a block over
   genesis; the validators sign precommits for the proposed block at any
   height, as create_vote lets them, each at most one per height, and the
   votes are handed to node 1. *)

NextAnyHeight ==
    \/ ReceiveTransaction(1, TxValid)
    \/ ProposeOver(1, header_hash(genesis))
    \/ \E k \in validator_set, b \in proposed, h \in HeightsVoted :
           /\ Equivocators(signed \cup {create_vote(NodeOf(k), header_hash(b.header), h, PRECOMMIT)}) = {}
           /\ CreateVote(k, header_hash(b.header), h, PRECOMMIT)
    \/ \E v \in signed : ReceiveVote(1, v)

SpecAnyHeight == Init /\ [][NextAnyHeight]_vars

-----------------------------------------------------------------------------
(* SpecRewrite: node 1 buffers transactions that write one key, with one value
   or another, and proposes blocks over the blocks it holds; the validators
   sign precommits for proposed blocks at the height of the block, one per
   validator and height, validator 1 prevotes as well, and the votes are
   handed to node 1 in any order. *)

PrevoteProposed(k, header) == CreateVote(k, header_hash(header), header.height, PREVOTE)

NextRewrite ==
    \/ \E tx \in {TxValid, TxRewrite} : ReceiveTransaction(1, tx)
    \/ \E parent_hash \in DOMAIN node[1].blocks : ProposeOver(1, parent_hash)
    \/ \E k \in validator_set, b \in proposed : PrecommitProposed(k, b.header)
    \/ \E b \in proposed : PrevoteProposed(1, b.header)
    \/ \E v \in signed : ReceiveVote(1, v)

SpecRewrite == Init /\ [][NextRewrite]_vars

-----------------------------------------------------------------------------
(* SpecExec: the application state of each node with apply_tx called on it
   directly, as the unit tests of the execution engine do, for transactions
   of two senders on three keys, well signed or not. *)

TxKeys == {<<1, 1>>, <<1, 2>>, <<2, 1>>}

TxValues == {1, 2}

\* Transactions as they may be handed over: signed by the sender for this
\* content, context and chain, or with a broken signature, a signature under
\* context VOTE, for another chain id, for another value, by another key
TxsHanded ==
    LET unsigned == {Transaction(sender, key, value, BadSig) :
                         sender \in {1, 2}, key \in TxKeys, value \in TxValues}
        signatures(tx) ==
            {BadSig,
             sign(tx.sender, tx_encode(tx), CTX_TX, CHAIN_ID),
             sign(tx.sender, tx_encode(tx), CTX_VOTE, CHAIN_ID),
             sign(tx.sender, tx_encode(tx), CTX_TX, OTHER_CHAIN),
             sign(tx.sender, tx_encode([tx EXCEPT !.value = 3 - @]), CTX_TX, CHAIN_ID),
             sign(3 - tx.sender, tx_encode(tx), CTX_TX, CHAIN_ID)}
    IN UNION {{[tx EXCEPT !.signature = sg] : sg \in signatures(tx)} : tx \in unsigned}

ApplyTx(n, tx) ==
    /\ node' = [node EXCEPT ![n].state = apply_tx(@, tx, node[n].chain_id).data]
    /\ UNCHANGED <<raised, signed, proposed>>

NextExec == \E n \in Nodes, tx \in TxsHanded : ApplyTx(n, tx)

SpecExec == Init /\ [][NextExec]_vars

-----------------------------------------------------------------------------
(* SpecCrypto: NodeKey.sign called for messages, contexts and chain ids; here
   signed holds each signature with what it was made for. Contexts and chain
   ids are strings, held as sequences of pieces of text, and may contain the
   colon. *)

Contexts == {CTX_TX, CTX_VOTE, <<"VOTE", ":", "a">>}

ChainIds == {CHAIN_ID, <<"b">>, <<"a", ":", "b">>}

Messages == {tx_encode(TxValid), tx_encode(TxForged)}

Sign(key, message, context, chain_id) ==
    /\ Cardinality(signed) < MaxSigned
    /\ signed' = signed \cup {[key |-> key, message |-> message, context |-> context,
                               chain_id |-> chain_id,
                               signature |-> sign(key, message, context, chain_id)]}
    /\ UNCHANGED <<node, raised, proposed>>

NextCrypto ==
    \E key \in {1, 2}, message \in Messages, context \in Contexts, chain_id \in ChainIds :
        Sign(key, message, context, chain_id)

SpecCrypto == Init /\ [][NextCrypto]_vars

-----------------------------------------------------------------------------
(* SpecLive: node 1 proposes block B over genesis with no transaction, the
   validators precommit B and nothing else, and the network hands blocks and
   precommits to the nodes in any order, any number of times. Delivery is
   fair: a precommit that was signed is eventually handed to every node.
   receive_vote on a signed precommit changes the node exactly while its vote
   id is not in seen_votes, so this is what weak fairness of each delivery
   comes to. *)

\* The precommit of key k for block B at height 1
PrecommitB(k) == create_vote(BlockchainNode(k, {}, CHAIN_ID), HashB, 1, PRECOMMIT)

CreatePrecommitB(k) ==
    /\ k \in validator_set
    /\ \E b \in proposed : PrecommitProposed(k, b.header)

DeliverPrecommitB(n, k) ==
    /\ PrecommitB(k) \in signed
    /\ ReceiveVote(n, PrecommitB(k))

NextLive ==
    \/ ProposeBlock(1, header_hash(genesis))
    \/ \E n \in Nodes, b \in proposed : ReceiveBlock(n, b.header, b.txs)
    \/ \E k \in 1..MaxValidators : CreatePrecommitB(k)
    \/ \E n \in Nodes, k \in 1..MaxValidators : DeliverPrecommitB(n, k)

\* Node n has taken the precommit of key k, if there is one
Taken(n, k) == PrecommitB(k) \in signed => vote_id(PrecommitB(k)) \in node[n].seen_votes

SpecLive ==
    /\ Init
    /\ [][NextLive]_vars
    /\ \A n \in Nodes, k \in 1..MaxValidators : []<>Taken(n, k)

-----------------------------------------------------------------------------
(* What the claims speak of *)

finalized(n) == node[n].consensus.finalized_blocks

precommits(n) == node[n].consensus.precommits

prevotes(n) == node[n].consensus.prevotes

quorum == Cardinality(validator_set) \div 2 + 1

\* The number of precommits for block hash bh in the tally of node n at height h
Precommitted(n, h, bh) == tally_count(precommits(n)[h], bh)

\* The votes held in the tallies of node n: every vote of a validator that
\* was handed to the node with a good signature and was no duplicate
Delivered(n) ==
    UNION {{precommits(n)[h][i] : i \in DOMAIN precommits(n)[h]} : h \in Heights}
    \cup UNION {{prevotes(n)[h][i] : i \in DOMAIN prevotes(n)[h]} : h \in Heights}

Agreement ==
    \A h \in Heights :
        (finalized(1)[h] # None /\ finalized(2)[h] # None) => finalized(1)[h] = finalized(2)[h]

\* A step never replaces a finalized hash by another one
WrittenOnce ==
    \A n \in Nodes, h \in Heights :
        finalized(n)[h] # None => finalized(n)[h]' = finalized(n)[h]

-----------------------------------------------------------------------------
\* C1: Agreement. While no validator has signed precommits for two block
\* hashes at one height, two nodes that both hold a finalized hash for a
\* height hold the same one, however the votes and blocks were delivered.
C1_Agreement == Equivocators(signed) = {} => Agreement

C1_Witness ==
    /\ Equivocators(signed) = {}
    /\ Cardinality(validator_set) = 3
    /\ finalized(1)[1] = HashB /\ finalized(2)[1] = HashB
    /\ precommits(1)[1] # precommits(2)[1]
    /\ \E v \in Delivered(1) : v.block_hash = HashA
    /\ HashB \in DOMAIN node[2].blocks

\* C2: Unique finalization. Once finalized[h] holds a block hash, no call of
\* receive_vote, handle_vote or try_finalize makes it hold another.
C2_WrittenOnce == [][WrittenOnce]_vars

\* C3, as claimed: with exactly one validator signing precommits for two
\* hashes at a height, no two different hashes are finalized at a height, on
\* one node or on two, whatever the size of the validator set.
C3_AnySize ==
    [][(Cardinality(Equivocators(signed')) = 1) => (Agreement' /\ WrittenOnce)]_vars

\* C3, amended: the same, for validator sets of even size.
C3_EvenSize ==
    [][(Cardinality(validator_set) % 2 = 0 /\ Cardinality(Equivocators(signed')) = 1)
          => (Agreement' /\ WrittenOnce)]_vars

C3_Witness ==
    /\ Cardinality(validator_set) = 2
    /\ Equivocators(signed) = {1}
    /\ Equivocators(Delivered(1)) = {1}
    /\ finalized(1)[1] # None /\ finalized(2)[1] # None

\* C4: Quorum rule. While every block hash has fewer than floor(N/2)+1
\* precommits at a height, the height is not finalized and try_finalize
\* returns None; a step from a height that is not finalized sets finalized[h]
\* to exactly the hash whose precommits have reached floor(N/2)+1.
BelowQuorum(n, h) == \A bh \in VoteHashes : Precommitted(n, h, bh) < quorum

C4_NotFinalized(n) ==
    \A h \in VoteHeights :
        BelowQuorum(n, h) =>
            /\ finalized(n)[h] = None
            /\ try_finalize(node[n].consensus, h).result = None
            /\ ~try_finalize(node[n].consensus, h).raised

C4_Finalizes(n) ==
    \A h \in VoteHeights :
        finalized(n)[h] = None =>
            \A bh \in VoteHashes :
                (finalized(n)[h]' = bh) <=> (Precommitted(n, h, bh)' >= quorum)

C4_QuorumRule == [][C4_NotFinalized(1) /\ C4_NotFinalized(1)' /\ C4_Finalizes(1)]_vars

C4_Witness ==
    /\ Cardinality(validator_set) = 3
    /\ finalized(1)[1] = HashA
    /\ Precommitted(1, 1, HashA) = 2
    /\ Precommitted(1, 1, EmptyStr) = 1

\* C5: Safety-violation detection. Whenever finalized[h] is a hash A and
\* another hash has reached the quorum of precommits at h, try_finalize(h)
\* raises, in whatever order the precommits were appended.
C5_Detected ==
    \A n \in Nodes, h \in VoteHeights, bh \in VoteHashes :
        (Truthy(finalized(n)[h]) /\ bh # finalized(n)[h] /\ Precommitted(n, h, bh) >= quorum)
            => try_finalize(node[n].consensus, h).raised

\* C6, as claimed: two nodes that were handed the same set of votes, in any
\* two orders, hold the same finalized map and either both raised the safety
\* violation or neither did.
SameOutcome == finalized(1) = finalized(2) /\ raised[1] = raised[2]

C6_AnyVotes == Delivered(1) = Delivered(2) => SameOutcome

\* C6, amended: the same, for a set of votes in which no validator
\* precommits two block hashes at one height.
C6_OrderInsensitive ==
    (Delivered(1) = Delivered(2) /\ Equivocators(Delivered(1)) = {}) => SameOutcome

C6_Witness ==
    /\ Cardinality(validator_set) = 3
    /\ Delivered(1) = Delivered(2)
    /\ Equivocators(Delivered(1)) = {}
    /\ Cardinality(Delivered(1)) = 3
    /\ precommits(1)[1][1].block_hash # precommits(2)[1][1].block_hash
    /\ finalized(1)[1] # None

\* C7: Idempotent vote ingress. The tallies of a node never hold two votes
\* with the same (validator, height, phase, block_hash), and handing the node
\* a vote it has accepted before returns False and changes nothing.
NoDuplicates(n) ==
    \A h \in Heights :
        /\ \A i, j \in DOMAIN precommits(n)[h] :
               vote_id(precommits(n)[h][i]) = vote_id(precommits(n)[h][j]) => i = j
        /\ \A i, j \in DOMAIN prevotes(n)[h] :
               vote_id(prevotes(n)[h][i]) = vote_id(prevotes(n)[h][j]) => i = j

RedeliveryDropped(n) ==
    \A v \in ValidVotes :
        vote_id(v) \in node[n].seen_votes =>
            /\ ~receive_vote(node[n], v).result
            /\ ~receive_vote(node[n], v).raised
            /\ receive_vote(node[n], v).node = node[n]

C7_Idempotent == NoDuplicates(1) /\ RedeliveryDropped(1)

C7_Witness ==
    /\ Cardinality(node[1].seen_votes) = MaxVotes
    /\ \E v \in Delivered(1) : v.phase = PREVOTE
    /\ \E v \in Delivered(1) : v.phase = PRECOMMIT
    /\ finalized(1)[1] # None

\* C8: Quorum monotonicity. Once finalized[h] = A, a further valid precommit
\* for A at h from a validator that has not precommitted A is accepted,
\* leaves finalized[h] = A and does not raise.
C8_Monotone ==
    \A h \in VoteHeights, v \in ValidVotes :
        (/\ ~raised[1]
         /\ finalized(1)[h] # None
         /\ v.height = h /\ v.phase = PRECOMMIT /\ v.block_hash = finalized(1)[h]
         /\ v \notin Delivered(1))
        => /\ handle_vote(node[1].consensus, v).result
           /\ ~handle_vote(node[1].consensus, v).raised
           /\ handle_vote(node[1].consensus, v).cs.finalized_blocks[h] = finalized(1)[h]

C8_Witness ==
    /\ Cardinality(validator_set) = 3
    /\ ~raised[1]
    /\ finalized(1)[1] = HashA
    /\ Precommitted(1, 1, HashA) = 3
    /\ precommits(1)[1][1].block_hash = EmptyStr

\* C9: Eventual finalization under fair delivery. Once node 1 has proposed
\* block B over genesis and every validator has signed its precommit for B,
\* with no other vote at height 1 and every precommit eventually handed to
\* every node, every node comes to hold finalized[1] = B.hash and holds it
\* forever.
AllPrecommitted ==
    /\ \E b \in proposed : header_hash(b.header) = HashB
    /\ \A k \in validator_set : PrecommitB(k) \in signed

AllFinalizedB == \A n \in Nodes : finalized(n)[1] = HashB

C9_EventuallyFinalized == AllPrecommitted ~> [](AllFinalizedB)

C9_Witness ==
    /\ Cardinality(validator_set) = 3
    /\ AllPrecommitted
    /\ AllFinalizedB
    /\ \A n \in Nodes : Cardinality(Delivered(n)) = 3
    /\ precommits(1)[1] # precommits(2)[1]

\* C10: State convergence. Two nodes that both hold block B and both hold the
\* precommits for B at its height from every validator have finalized B at
\* that height and have the same application-state commitment, however the
\* delivery of the block was interleaved with the delivery of the votes.
Converged(b) ==
    LET bh == header_hash(b.header)
        h  == b.header.height
    IN (\A n \in Nodes :
            /\ bh \in DOMAIN node[n].blocks
            /\ \A k \in validator_set :
                   create_vote(NodeOf(k), bh, h, PRECOMMIT) \in Delivered(n))
       => /\ \A n \in Nodes : finalized(n)[h] = bh
          /\ get_commitment(node[1].state) = get_commitment(node[2].state)

C10_Convergence == \A b \in proposed : Converged(b)

\* C11: Finalization replays the block. A receive_vote call that makes
\* finalized[h] become B while B is in the block store leaves the application
\* state equal to the state before the call with the transactions of B's body
\* applied in order through apply_tx, the rejected ones skipped; with an empty
\* body the commitment is unchanged, and it is the genesis commitment when
\* nothing was finalized before.
NothingFinalized(n) == \A h \in Heights \ {0} : finalized(n)[h] = None

Replayed(n, h) ==
    LET bh   == finalized(n)[h]'
        body == node[n].block_bodies[bh]
    IN (finalized(n)[h] = None /\ bh # None /\ bh \in DOMAIN node[n].blocks)
       => /\ node[n].state' = apply_all(node[n].state, body, node[n].chain_id)
          /\ body = <<>> =>
                /\ get_commitment(node[n].state') = get_commitment(node[n].state)
                /\ NothingFinalized(n) => get_commitment(node[n].state') = genesis.state_hash

C11_Replays == [][\A n \in Nodes, h \in Heights \ {0} : Replayed(n, h)]_vars

C11_Witness ==
    /\ finalized(2)[1] \in DOMAIN node[2].blocks
    /\ finalized(2)[2] \in DOMAIN node[2].blocks
    /\ node[2].block_bodies[finalized(2)[1]] = <<TxValid, TxForged>>
    /\ node[2].block_bodies[finalized(2)[2]] = <<>>
    /\ node[2].state = <<<<TxValid.key, TxValid.value>>>>
    /\ node[2].current_height = 2

\* C12: Block reproducibility. For every block in a node's store, put there
\* by propose_block or receive_block, executing the block's body in order on
\* the post-state of its parent, the state reached by applying the chain from
\* genesis to the parent, yields a state whose commitment is the header's
\* state_hash.
RECURSIVE PostState(_, _)
PostState(n, block_hash) ==
    IF block_hash = header_hash(genesis) THEN <<>>
    ELSE apply_all(PostState(n, node[n].blocks[block_hash].parent_hash),
                   node[n].block_bodies[block_hash], node[n].chain_id)

C12_Reproducible ==
    \A n \in Nodes :
        \A block_hash \in DOMAIN node[n].blocks \ {header_hash(genesis)} :
            get_commitment(PostState(n, block_hash)) = node[n].blocks[block_hash].state_hash

\* C13: Block rejection. receive_block returns false and leaves the header
\* store and the body store as they were when the header's parent is not in
\* the store, when the header's signature does not verify for its proposer
\* under HEADER and the node's chain id, or when the state hash recomputed
\* from the delivered transactions differs from the header's; a block is
\* inserted only after all three checks pass.
ParentKnown(n, header) == header.parent_hash \in DOMAIN node[n].blocks

SignatureGood(n, header) ==
    header.signature = sign(header.proposer, header_encode(header), CTX_HEADER, node[n].chain_id)

StateHashGood(n, header, txs) ==
    get_commitment(apply_all(<<>>, txs, node[n].chain_id)) = header.state_hash

Checked(n, header, txs) ==
    ParentKnown(n, header) /\ SignatureGood(n, header) /\ StateHashGood(n, header, txs)

Rejected(n, header, txs) ==
    LET r == receive_block(node[n], header, txs)
    IN /\ ~r.result
       /\ r.node.blocks = node[n].blocks
       /\ r.node.block_bodies = node[n].block_bodies

InsertedChecked(n, header, txs) ==
    LET r == receive_block(node[n], header, txs)
    IN (r.node.blocks # node[n].blocks \/ r.node.block_bodies # node[n].block_bodies)
       => /\ Checked(n, header, txs)
          /\ r.result
          /\ r.node.blocks = store(node[n].blocks, header_hash(header), header)
          /\ r.node.block_bodies = store(node[n].block_bodies, header_hash(header), txs)

\* C13, as claimed: whatever the node already holds
C13_AnyHeader ==
    \A n \in Nodes, b \in proposed, txs \in BlockBodies :
        \A header \in BlockHeaders(b.header) :
            /\ ~Checked(n, header, txs) => Rejected(n, header, txs)
            /\ InsertedChecked(n, header, txs)

\* C13, amended: for a header whose hash is not in the node's store. (For one
\* whose hash is, receive_block returns true at once, checks nothing and
\* changes nothing.)
C13_NewHeader ==
    \A n \in Nodes, b \in proposed, txs \in BlockBodies :
        \A header \in BlockHeaders(b.header) :
            /\ (header_hash(header) \notin DOMAIN node[n].blocks /\ ~Checked(n, header, txs))
                   => Rejected(n, header, txs)
            /\ header_hash(header) \in DOMAIN node[n].blocks
                   => /\ receive_block(node[n], header, txs).result
                      /\ receive_block(node[n], header, txs).node = node[n]
            /\ InsertedChecked(n, header, txs)

C13_Witness ==
    /\ DOMAIN node[2].blocks = {header_hash(genesis)}
    /\ \E b \in proposed : ~ParentKnown(2, b.header)
    /\ \E b \in proposed, txs \in BlockBodies :
           /\ ParentKnown(2, b.header) /\ SignatureGood(2, b.header)
           /\ ~StateHashGood(2, b.header, txs)
    /\ \E b \in proposed : \E header \in BlockHeaders(b.header) :
           /\ ParentKnown(2, header) /\ ~SignatureGood(2, header)
           /\ StateHashGood(2, header, b.txs)

\* C14: Vote rejection. handle_vote, and receive_vote through it, returns
\* false for a vote whose validator is not in the validator set or whose
\* signature does not verify for its content under VOTE and the node's chain
\* id, a signature by another validator's key included; prevotes, precommits,
\* finalized and the seen-vote set are then as they were.
VotesHanded ==
    LET unsigned == {Vote(k, 1, HashA, ph, BadSig) : k \in Keys, ph \in {PREVOTE, PRECOMMIT}}
        signatures(v) ==
            {BadSig,
             sign(v.validator, vote_encode(v), CTX_TX, CHAIN_ID),
             sign(v.validator, vote_encode(v), CTX_VOTE, OTHER_CHAIN),
             sign(v.validator, vote_encode([v EXCEPT !.block_hash = HashB]), CTX_VOTE, CHAIN_ID)}
            \cup {sign(k, vote_encode(v), CTX_VOTE, CHAIN_ID) : k \in Keys}
    IN UNION {{[v EXCEPT !.signature = sg] : sg \in signatures(v)} : v \in unsigned}

VoteGood(n, v) ==
    /\ v.validator \in validator_set
    /\ v.signature = sign(v.validator, vote_encode(v), CTX_VOTE, node[n].chain_id)

C14_Rejects ==
    \A v \in VotesHanded :
        ~VoteGood(1, v) =>
            /\ handle_vote(node[1].consensus, v) =
                   [cs |-> node[1].consensus, result |-> FALSE, raised |-> FALSE]
            /\ receive_vote(node[1], v) =
                   [node |-> node[1], result |-> FALSE, raised |-> FALSE]

C14_Witness ==
    /\ Cardinality(validator_set) = 2
    /\ ~raised[1]
    /\ prevotes(1)[1] # <<>>
    /\ Len(precommits(1)[1]) = 3
    /\ finalized(1)[1] = HashA

\* C15: Prevotes never finalize. Taking a valid prevote at height h leaves
\* finalized and the precommit tally as they were, and a height at which the
\* prevotes for a hash have reached the quorum, even prevotes of all
\* validators, while the precommits have not, is not finalized: only
\* precommits count toward the quorum.
PrevoteInert(n, v) ==
    LET hv == handle_vote(node[n].consensus, v)
        rv == receive_vote(node[n], v)
    IN /\ hv.result /\ ~hv.raised
       /\ hv.cs.finalized_blocks = finalized(n)
       /\ hv.cs.precommits = precommits(n)
       /\ hv.cs.prevotes[v.height] = Append(prevotes(n)[v.height], v)
       /\ ~rv.raised
       /\ rv.node.consensus.finalized_blocks = finalized(n)
       /\ rv.node.consensus.precommits = precommits(n)
       /\ rv.node.state = node[n].state

C15_PrevotesInert ==
    /\ \A v \in ValidVotes : v.phase = PREVOTE => PrevoteInert(1, v)
    /\ \A h \in VoteHeights : BelowQuorum(1, h) => finalized(1)[h] = None

C15_Witness ==
    /\ Cardinality(validator_set) = 3
    /\ tally_count(prevotes(1)[1], HashA) = 3
    /\ Precommitted(1, 1, HashA) = 1
    /\ finalized(1)[1] = None

\* C16: Transaction rejection without mutation. apply_tx returns false and
\* leaves the map exactly as it was when the key is not one of the sender's
\* or when the signature does not verify for {sender, key, value} under TX
\* and the chain id (another context, another chain id, a value changed after
\* signing); otherwise it returns true and sets state[tx.key] = tx.value.
TxGood(tx, chain_id) ==
    /\ tx.key[1] = tx.sender
    /\ tx.signature = sign(tx.sender, tx_encode(tx), CTX_TX, chain_id)

\* The key/value pairs of a map
Items(data) == {data[i] : i \in DOMAIN data}

Applied(data, tx, chain_id) ==
    LET r == apply_tx(data, tx, chain_id)
    IN IF TxGood(tx, chain_id)
       THEN /\ r.ok
            /\ Items(r.data) = {item \in Items(data) : item[1] # tx.key} \cup {<<tx.key, tx.value>>}
            /\ Len(r.data) = Cardinality(Items(r.data))
       ELSE ~r.ok /\ r.data = data

C16_RejectsUnchanged ==
    \A n \in Nodes, tx \in TxsHanded : Applied(node[n].state, tx, node[n].chain_id)

C16_Witness ==
    /\ Len(node[1].state) = 3
    /\ \E i \in DOMAIN node[1].state : node[1].state[i] = <<<<2, 1>>, 2>>
    /\ node[1].state[1] = <<<<1, 2>>, 1>>

\* C18: Commitment depends only on the map's contents. Two states that hold
\* the same key/value pairs, whatever the order in which accepted
\* transactions wrote them, have the same commitment; so have two empty
\* states.
C18_ContentsOnly ==
    Items(node[1].state) = Items(node[2].state)
        => get_commitment(node[1].state) = get_commitment(node[2].state)

C18_Witness ==
    /\ Items(node[1].state) = Items(node[2].state)
    /\ Len(node[1].state) = 3
    /\ node[1].state[1] = node[2].state[3]
    /\ node[1].state[2] = node[2].state[1]

\* C20: receive_transaction never changes the live application state. The
\* transaction is tried on a copy; an accepted one is appended to the end of
\* pending_txs and true is returned, a rejected one returns false and leaves
\* pending_txs as it was.
Buffered(n, tx) ==
    LET r == receive_transaction(node[n], tx)
    IN /\ r.node.state = node[n].state
       /\ IF TxGood(tx, node[n].chain_id)
          THEN /\ r.result
               /\ r.node = [node[n] EXCEPT !.pending_txs = Append(@, tx)]
          ELSE ~r.result /\ r.node = node[n]

C20_StateUntouched == \A n \in Nodes, tx \in TxsHanded : Buffered(n, tx)

C20_Witness ==
    /\ node[1].state # <<>>
    /\ node[1].pending_txs = <<TxValid>>
    /\ node[1].current_height = 1

\* C17: Domain separation. A signature made by sign(key, message, c1, ch1)
\* verifies only for the signer's public key, the same message and the same
\* pair of context and chain id: under no other pair (c2, ch2) does it verify.
C17_Separated ==
    \A s \in signed :
        \A pub \in Keys, message \in Messages, context \in Contexts, chain_id \in ChainIds :
            verify(pub, s.signature, message, context, chain_id)
                <=> /\ pub = s.key
                    /\ message = s.message
                    /\ context = s.context
                    /\ chain_id = s.chain_id

-----------------------------------------------------------------------------
\* C21: propose_block(parent_hash) returns None and changes nothing when
\* parent_hash is not in the block store. Otherwise it returns a header over
\* that parent, stores it under its hash, stores as its body the pending_txs
\* list as it was at the call, and empties pending_txs; everything else of the
\* node, and every other entry of the two stores, is as it was.
Proposes(n, parent_hash) ==
    LET nd     == node[n]
        r      == propose_block(nd, parent_hash)
        header == r.result
        hash   == header_hash(header)
    IN IF parent_hash \notin DOMAIN nd.blocks
       THEN r.is_none /\ r.node = nd
       ELSE /\ ~r.is_none
            /\ header.parent_hash = parent_hash
            /\ header.height = nd.blocks[parent_hash].height + 1
            /\ DOMAIN r.node.blocks = DOMAIN nd.blocks \cup {hash}
            /\ DOMAIN r.node.block_bodies = DOMAIN nd.block_bodies \cup {hash}
            /\ r.node.blocks[hash] = header
            /\ r.node.block_bodies[hash] = nd.pending_txs
            /\ \A other \in DOMAIN nd.blocks \ {hash} :
                   /\ r.node.blocks[other] = nd.blocks[other]
                   /\ r.node.block_bodies[other] = nd.block_bodies[other]
            /\ r.node.pending_txs = <<>>
            /\ [r.node EXCEPT !.blocks = nd.blocks,
                              !.block_bodies = nd.block_bodies,
                              !.pending_txs = nd.pending_txs] = nd

C21_Proposes ==
    \A n \in Nodes : \A parent_hash \in DOMAIN node[n].blocks \cup {HashA, ZeroHash} :
        Proposes(n, parent_hash)

\* Node 1 has proposed a block with a transaction in it and has buffered the
\* next transaction
C21_Witness ==
    /\ \E b \in proposed : b.txs = <<TxValid>> /\ node[1].block_bodies[header_hash(b.header)] = <<TxValid>>
    /\ node[1].pending_txs = <<TxValid>>

-----------------------------------------------------------------------------
\* C22: Only vote ingress changes consensus and application state.
\* receive_transaction, receive_block and propose_block give back a node with
\* the same prevote and precommit tallies, finalized map, seen-vote set, live
\* application state and current_height, and a step in which create_vote
\* signs a vote changes no node: whenever one of these six changes on a node,
\* the step neither signed a vote, nor proposed a block, nor changed the
\* node's stores or its pending_txs.
Ingested(nd) ==
    <<nd.consensus.prevotes, nd.consensus.precommits, nd.consensus.finalized_blocks,
      nd.seen_votes, nd.state, nd.current_height>>

IngressFrames(n) ==
    /\ \A tx \in {TxValid} \cup RejectedTxs :
           Ingested(receive_transaction(node[n], tx).node) = Ingested(node[n])
    /\ \A parent_hash \in DOMAIN node[n].blocks \cup {HashA} :
           Ingested(propose_block(node[n], parent_hash).node) = Ingested(node[n])
    /\ \A b \in proposed, txs \in BlockBodies : \A header \in BlockHeaders(b.header) :
           Ingested(receive_block(node[n], header, txs).node) = Ingested(node[n])

VoteStep(n) ==
    /\ signed' = signed
    /\ proposed' = proposed
    /\ node'[n].blocks = node[n].blocks
    /\ node'[n].block_bodies = node[n].block_bodies
    /\ node'[n].pending_txs = node[n].pending_txs

C22_OnlyVotes ==
    /\ [](\A n \in Nodes : IngressFrames(n))
    /\ [][\A n \in Nodes :
              /\ signed' # signed => node' = node
              /\ Ingested(node'[n]) # Ingested(node[n]) => VoteStep(n)]_vars

\* Node 1 has buffered a transaction after proposing a block, node 2 holds the
\* block, and validator 1 has signed a precommit for it that no node counts
C22_Witness ==
    /\ node[1].pending_txs # <<>>
    /\ \E b \in proposed :
           /\ header_hash(b.header) \in DOMAIN node[2].blocks
           /\ create_vote(node[1], header_hash(b.header), 1, PRECOMMIT) \in signed
    /\ \A n \in Nodes : Ingested(node[n]) = Ingested(BlockchainNode(n, validator_set, CHAIN_ID))

-----------------------------------------------------------------------------
\* C23: Genesis invariant. In every reachable state every node holds the
\* genesis header (height 0, parent hash of zeros, proposer "genesis", empty
\* signature, state hash the commitment of the empty map) in its block store
\* under its hash, and finalized[0] is that hash, the same on all nodes; no
\* precommits handed in at height 0, whatever hash they are for, replace it.
GenesisHeld(n) ==
    LET held == node[n].blocks[finalized(n)[0]]
    IN /\ finalized(n)[0] \in DOMAIN node[n].blocks
       /\ finalized(n)[0] = header_hash(held)
       /\ held.height = 0
       /\ held.parent_hash = ZeroHash
       /\ held.proposer \notin Keys
       /\ held.signature = EmptyStr
       /\ held.state_hash = get_commitment(<<>>)

C23_Genesis ==
    /\ \A n \in Nodes : GenesisHeld(n)
    /\ \A n, m \in Nodes : finalized(n)[0] = finalized(m)[0]

\* Node 1 was handed a quorum of precommits at height 0 for another hash, and
\* holds a block over genesis
C23_Witness ==
    /\ Precommitted(1, 0, HashA) >= quorum
    /\ Cardinality(DOMAIN node[1].blocks) > 1

-----------------------------------------------------------------------------
\* C24: Only the safety violation is fatal. On invalid input (a key or a
\* signature that is no hex of a key or signature, an unknown parent, a bad
\* signature, a wrong context or chain id, a key the sender does not own, a
\* validator outside the set, a state hash that does not match, a vote seen
\* before) receive_transaction, receive_block and receive_vote return False,
\* propose_block returns None, and none of them raises. receive_vote raises
\* exactly when handle_vote does, which is when try_finalize finds a quorum
\* for a hash other than the one the height is finalized with.
TxsInvalid ==
    LET malformed == Transaction(0, <<0, 1>>, 1, BadSig)
    IN RejectedTxs \cup {TxForged, malformed,
                         [malformed EXCEPT !.signature = sign(0, tx_encode(malformed), CTX_TX, CHAIN_ID)]}

\* Blocks no node accepts over genesis: BlockB with a broken or foreign
\* signature, with a proposer that is no key, over a parent that is not
\* held, and with a body that does not give its state hash
BlocksInvalid ==
    LET orphan == build_block([genesis EXCEPT !.parent_hash = HashA], <<>>, 1, CHAIN_ID).header
    IN {[header |-> h, txs |-> <<>>] : h \in BlockHeaders(BlockB) \ {BlockB}}
       \cup {[header |-> [BlockB EXCEPT !.proposer = 0], txs |-> <<>>],
             [header |-> [BlockB EXCEPT !.parent_hash = HashA], txs |-> <<>>],
             [header |-> [orphan EXCEPT !.parent_hash = header_hash(orphan)], txs |-> <<>>],
             [header |-> BlockB, txs |-> <<TxValid>>]}

VotesInvalid(n) ==
    {v \in VotesHanded : ~VoteGood(n, v)} \cup RejectedVotes
    \cup {v \in ValidVotes : vote_id(v) \in node[n].seen_votes}

SoftRejects(n) ==
    /\ \A tx \in TxsInvalid :
           receive_transaction(node[n], tx) = [node |-> node[n], result |-> FALSE]
    /\ \A b \in BlocksInvalid :
           receive_block(node[n], b.header, b.txs) = [node |-> node[n], result |-> FALSE]
    /\ propose_block(node[n], HashA).is_none
    /\ propose_block(node[n], HashA).node = node[n]
    /\ \A v \in VotesInvalid(n) :
           receive_vote(node[n], v) = [node |-> node[n], result |-> FALSE, raised |-> FALSE]

Propagates(n) ==
    \A v \in ValidVotes :
        LET r      == receive_vote(node[n], v)
            stored == [node[n].consensus EXCEPT !.precommits[v.height] = Append(@, v)]
        IN /\ r.raised <=> /\ vote_id(v) \notin node[n].seen_votes
                           /\ v.phase = PRECOMMIT
                           /\ try_finalize(stored, v.height).raised
           /\ r.raised =>
                  /\ ~r.result
                  /\ Truthy(finalized(n)[v.height])
                  /\ \E bh \in VoteHashes \ {finalized(n)[v.height]} :
                         tally_count(stored.precommits[v.height], bh) >= quorum

C24_OnlyViolationFatal == SoftRejects(1) /\ Propagates(1)

\* The exception was raised on node 1, which has seen votes
C24_Witness == raised[1] /\ node[1].seen_votes # {}

-----------------------------------------------------------------------------
\* C25: In every reachable state of a node, current_height is the greatest
\* height h for which the node has a finalized[h] entry.
FinalizedHeights(n) == {h \in Heights : finalized(n)[h] # None}

C25_HeightIsMax ==
    \A n \in Nodes :
        /\ node[n].current_height \in FinalizedHeights(n)
        /\ \A h \in FinalizedHeights(n) : h <= node[n].current_height

-----------------------------------------------------------------------------
\* C26: Heights are independent. A step that ingests a vote at height h
\* appends the vote to a tally of h and may write finalized[h]; the tallies
\* and the finalized entry of every other height are as they were. The
\* SAFETY VIOLATION is raised only over two hashes at one height: a height
\* is finalized with a hash other than that of another height without it.
AtHeight(n, h) == <<prevotes(n)[h], precommits(n)[h], finalized(n)[h]>>

IngestedAt(n, h) ==
    \E v \in HeightsVotes :
        /\ v.height = h
        /\ \/ precommits(n)'[h] = Append(precommits(n)[h], v) /\ prevotes(n)'[h] = prevotes(n)[h]
           \/ prevotes(n)'[h] = Append(prevotes(n)[h], v) /\ precommits(n)'[h] = precommits(n)[h]

ConflictAt(n, h) ==
    /\ Truthy(finalized(n)[h])
    /\ \E bh \in {HashA, HashB} \ {finalized(n)[h]} : Precommitted(n, h, bh)' >= quorum

C26_Independent ==
    [][\A h \in Heights :
           AtHeight(1, h)' # AtHeight(1, h) =>
               /\ IngestedAt(1, h)
               /\ \A other \in Heights \ {h} : AtHeight(1, other)' = AtHeight(1, other)
               /\ raised'[1] => ConflictAt(1, h)]_vars

\* Height 1 is finalized with one hash and height 2 with another
C26_Witness ==
    /\ finalized(1)[1] = HashA
    /\ finalized(1)[2] = HashB
    /\ ~raised[1]

-----------------------------------------------------------------------------
\* C27 as stated: a height moves New -> Prevoting -> Precommitting ->
\* Finalized in that order. The first precommit at h is ingested only when a
\* prevote at h has been, and finalized[h] for h >= 1 becomes set only with a
\* prevote and a precommit in the tallies of h.
C27_PhaseOrder ==
    [][\A h \in Heights \ {0} :
           /\ (precommits(1)[h] = <<>> /\ precommits(1)'[h] # <<>>) => prevotes(1)[h] # <<>>
           /\ (finalized(1)[h] = None /\ finalized(1)'[h] # None) =>
                  prevotes(1)'[h] # <<>> /\ precommits(1)'[h] # <<>>]_vars

\* C27, amended: finalized[h] for h >= 1 is set only when at least one
\* precommit has been ingested at h: a finalized height has a precommit for
\* its hash in its tally. Prevotes are not needed: a height with no prevote is
\* finalized by precommits alone.
C27_PrecommitsOnly ==
    \A h \in Heights \ {0} :
        finalized(1)[h] # None =>
            \E i \in DOMAIN precommits(1)[h] : precommits(1)[h][i].block_hash = finalized(1)[h]

\* A height finalized with no prevote ingested
C27_Witness ==
    /\ finalized(1)[1] = HashA
    /\ prevotes(1)[1] = <<>>
    /\ Cardinality(validator_set) = 3

-----------------------------------------------------------------------------
\* The SAFETY VIOLATION is raised in this step, on a precommit ingested at
\* height h
RaisedAt(n, h) ==
    /\ ~raised[n]
    /\ raised'[n]
    /\ precommits(n)'[h] # precommits(n)[h]

\* C28 as stated: the safety-violation error state of a height h is entered
\* only from the Precommitting state of h, with a precommit ingested and
\* finalized[h] not yet set.
C28_FromPrecommitting ==
    [][\A h \in Heights :
           RaisedAt(1, h) => finalized(1)[h] = None /\ precommits(1)'[h] # <<>>]_vars

\* C28, amended: the safety-violation error state of a height h is entered
\* only from the Finalized state of h. The exception is raised in a step that
\* ingests a precommit at a height whose finalized entry is set to a
\* non-empty hash, when a different hash has a quorum in the tally; the
\* finalized entry stays as it was. It is never raised at a height that is
\* not finalized.
C28_FromFinalized ==
    [][(~raised[1] /\ raised'[1]) =>
           \E h \in Heights :
               /\ RaisedAt(1, h)
               /\ Truthy(finalized(1)[h])
               /\ finalized(1)'[h] = finalized(1)[h]
               /\ \E bh \in VoteHashes \ {finalized(1)[h]} : Precommitted(1, h, bh)' >= quorum]_vars

\* The exception was raised on node 1 at height 1, finalized before
C28_Witness ==
    /\ raised[1]
    /\ finalized(1)[1] = HashA
    /\ Precommitted(1, 1, EmptyStr) >= quorum

-----------------------------------------------------------------------------
\* C29: build_block(parent, txs, key, chain_id) returns a header with
\* parent_hash the hash of parent, height one more than parent's, proposer the
\* public key of key, signed by it under HEADER and chain_id, and state_hash
\* the commitment of the map that holds, for every key written by an accepted
\* transaction of txs, the value of the last accepted transaction on it:
\* rejected transactions are skipped. The state hash is the same over every
\* parent.
TxSecond ==
    LET unsigned == Transaction(2, <<2, 1>>, 1, BadSig)
    IN [unsigned EXCEPT !.signature = sign(2, tx_encode(unsigned), CTX_TX, CHAIN_ID)]

TxsBuilt == {TxValid, TxForged, TxRewrite, TxSecond}

BodiesBuilt == {<<>>} \cup {<<tx>> : tx \in TxsBuilt} \cup {<<t1, t2>> : t1, t2 \in TxsBuilt}

\* The key/value pairs left by the accepted transactions of txs, in order
LastWrites(txs, chain_id) ==
    LET accepted == {i \in DOMAIN txs : TxGood(txs[i], chain_id)}
    IN {<<txs[i].key, txs[i].value>> :
            i \in {i \in accepted : \A j \in accepted : txs[j].key = txs[i].key => j <= i}}

Built(parent, txs, key, chain_id) ==
    LET r == build_block(parent, txs, key, chain_id)
    IN /\ r.header.parent_hash = header_hash(parent)
       /\ r.header.height = parent.height + 1
       /\ r.header.proposer = key
       /\ verify(key, r.header.signature, header_encode(r.header), CTX_HEADER, chain_id)
       /\ r.header.state_hash = get_commitment(r.state)
       /\ Items(r.state) = LastWrites(txs, chain_id)
       /\ Len(r.state) = Cardinality(Items(r.state))
       /\ r.header.state_hash = build_block(genesis, txs, key, chain_id).header.state_hash

C29_Built ==
    \A hash \in DOMAIN node[1].blocks, txs \in BodiesBuilt, key \in Keys,
       chain_id \in {CHAIN_ID, OTHER_CHAIN} :
        Built(node[1].blocks[hash], txs, key, chain_id)

\* Node 1 holds a block with a transaction and, over it, a block with none,
\* whose state hash is the commitment of the empty map
C29_Witness ==
    \E b1, b2 \in proposed :
        /\ b1.txs = <<TxValid>>
        /\ b2.header.parent_hash = header_hash(b1.header)
        /\ b2.header.state_hash = get_commitment(<<>>)
        /\ header_hash(b2.header) \in DOMAIN node[1].blocks

-----------------------------------------------------------------------------
\* C30: receive_block is idempotent on stored blocks. For a header whose
\* hash is in the block store it returns True and leaves the node, its header
\* store and its body store as they were, whatever the signature of the
\* delivered header and whatever transactions come with it.
Redelivered(header) ==
    {header,
     [header EXCEPT !.signature = BadSig],
     [header EXCEPT !.signature = EmptyStr],
     [header EXCEPT !.signature = sign(header.proposer, header_encode(header), CTX_HEADER, OTHER_CHAIN)],
     [header EXCEPT !.signature = sign(2, header_encode(header), CTX_HEADER, CHAIN_ID)]}

C30_Idempotent ==
    \A n \in Nodes : \A hash \in DOMAIN node[n].blocks :
        \A header \in Redelivered(node[n].blocks[hash]), txs \in BodiesBuilt :
            /\ header_hash(header) = hash
            /\ receive_block(node[n], header, txs) = [node |-> node[n], result |-> TRUE]

\* Node 2 holds a block it was handed, with a transaction in its body
C30_Witness ==
    \E b \in proposed :
        /\ b.txs = <<TxValid>>
        /\ header_hash(b.header) \in DOMAIN node[2].blocks
        /\ node[2].block_bodies[header_hash(b.header)] = <<TxValid>>

-----------------------------------------------------------------------------
\* The consensus state after handle_vote was called k times with one vote
RECURSIVE HandleTimes(_, _, _)
HandleTimes(cs, vote, k) ==
    IF k = 0 THEN cs ELSE HandleTimes(handle_vote(cs, vote).cs, vote, k - 1)

\* The node after receive_vote was called k times with one vote
RECURSIVE ReceiveTimes(_, _, _)
ReceiveTimes(nd, vote, k) ==
    IF k = 0 THEN nd ELSE ReceiveTimes(receive_vote(nd, vote).node, vote, k - 1)

\* A valid precommit handed quorum times to handle_vote finalizes its hash at
\* a height that was not finalized
CountedEach(n, v) ==
    LET cs == HandleTimes(node[n].consensus, v, quorum)
    IN /\ tally_count(cs.precommits[v.height], v.block_hash)
              = Precommitted(n, v.height, v.block_hash) + quorum
       /\ cs.finalized_blocks[v.height] = v.block_hash

\* The same deliveries through receive_vote count once and do not finalize a
\* height with no precommit for the hash
CountedOnce(n, v) ==
    LET nd == ReceiveTimes(node[n], v, quorum)
    IN Precommitted(n, v.height, v.block_hash) = 0 =>
           /\ tally_count(nd.consensus.precommits[v.height], v.block_hash) = 1
           /\ nd.consensus.finalized_blocks[v.height] = None

Unfinalized(n) ==
    {v \in ConsVotes : v.phase = PRECOMMIT /\ finalized(n)[v.height] = None}

\* C31 as stated: dedup lives only at the node. The same valid precommit of
\* one validator handed floor(N/2)+1 times to handle_vote reaches the quorum
\* and finalizes the hash; the same deliveries through receive_vote count
\* once and do not finalize.
C31_AnySize ==
    \A v \in Unfinalized(1) : CountedEach(1, v) /\ CountedOnce(1, v)

\* C31, amended: the same with at least two validators for the deliveries
\* through receive_vote. With one validator the quorum is one vote, and the
\* one delivery finalizes through receive_vote as well.
C31_DedupAtNode ==
    \A v \in Unfinalized(1) :
        /\ CountedEach(1, v)
        /\ Cardinality(validator_set) >= 2 => CountedOnce(1, v)

\* One precommit of validator 1, handed twice to handle_vote, has finalized
\* its hash among three validators; the node has seen no vote
C31_Witness ==
    LET v == create_vote(node[1], HashA, 1, PRECOMMIT)
    IN /\ Cardinality(validator_set) = 3
       /\ precommits(1)[1] = <<v, v>>
       /\ finalized(1)[1] = HashA
       /\ node[1].seen_votes = {}

-----------------------------------------------------------------------------
\* The validators with a precommit for block hash bh in the tally of node n
\* at height h
Precommitters(n, h, bh) ==
    {precommits(n)[h][i].validator :
        i \in {i \in DOMAIN precommits(n)[h] : precommits(n)[h][i].block_hash = bh}}

\* C32: Finalized means quorum. In every state of a node reached through
\* receive_vote, for every height h >= 1, finalized[h] is defined if and only
\* if some block hash has precommits at h from at least floor(N/2)+1 distinct
\* validators, and finalized[h] is then such a hash.
C32_FinalizedIsQuorum ==
    \A h \in Heights \ {0} :
        /\ finalized(1)[h] # None <=>
               \E bh \in VoteHashes : Cardinality(Precommitters(1, h, bh)) >= quorum
        /\ finalized(1)[h] # None =>
               Cardinality(Precommitters(1, h, finalized(1)[h])) >= quorum

\* Two of three validators precommitted the finalized hash, the third another
C32_Witness ==
    /\ Cardinality(validator_set) = 3
    /\ finalized(1)[1] = HashB
    /\ Cardinality(Precommitters(1, 1, HashB)) = 2
    /\ Cardinality(Precommitters(1, 1, HashA)) = 1

-----------------------------------------------------------------------------
\* C33: Seen-set and tally agree. In every state of a node reached without a
\* safety violation, the seen-vote set holds exactly the keys
\* validator:height:phase:block_hash of the votes stored in the prevote and
\* precommit tallies, and receive_vote returned True once for each key: the
\* tallies hold one vote per key.
C33_SeenIsTally ==
    ~raised[1] =>
        /\ node[1].seen_votes = {vote_id(v) : v \in Delivered(1)}
        /\ StoredVotes(node[1].consensus) = Cardinality(node[1].seen_votes)

-----------------------------------------------------------------------------
\* C34: Block store closure. In every reachable state of a node the header
\* store and the body store have the same keys, every header is stored under
\* its hash, the parent_hash of every stored header other than genesis is a
\* key of the store, and no step removes a key from the store.
Closed(n) ==
    /\ DOMAIN node[n].blocks = DOMAIN node[n].block_bodies
    /\ \A hash \in DOMAIN node[n].blocks :
           /\ header_hash(node[n].blocks[hash]) = hash
           /\ node[n].blocks[hash] # genesis =>
                  node[n].blocks[hash].parent_hash \in DOMAIN node[n].blocks

C34_Closure ==
    /\ [](\A n \in Nodes : Closed(n))
    /\ [][\A n \in Nodes : DOMAIN node[n].blocks \subseteq DOMAIN node'[n].blocks]_vars

\* Node 2 holds genesis, a block over it and a block over that one
C34_Witness ==
    \E b1, b2 \in proposed :
        /\ b2.header.parent_hash = header_hash(b1.header)
        /\ {header_hash(b1.header), header_hash(b2.header)} \subseteq DOMAIN node[2].blocks

-----------------------------------------------------------------------------
\* C35: Height chaining in the store. Every header other than genesis held in
\* a node's block store, inserted by propose_block or accepted by
\* receive_block, has the height of its parent plus one.
C35_HeightsChain ==
    \A n \in Nodes : \A hash \in DOMAIN node[n].blocks :
        LET header == node[n].blocks[hash]
        IN header # genesis =>
               /\ header.parent_hash \in DOMAIN node[n].blocks
               /\ header.height = node[n].blocks[header.parent_hash].height + 1

-----------------------------------------------------------------------------
\* C36: Finalized hash matches its height. In every reachable state of a
\* node, if finalized[h] = b and b is in the block store, the stored header of
\* b has height h.
C36_HeightMatches ==
    \A n \in Nodes : \A h \in Heights :
        finalized(n)[h] \in DOMAIN node[n].blocks =>
            node[n].blocks[finalized(n)[h]].height = h

-----------------------------------------------------------------------------
\* C37: A finalized block is applied once. After a node has finalized block B
\* at height h and replayed it, every later vote accepted for h, a further
\* precommit or a late prevote for B, leaves the application state unchanged,
\* also when blocks at greater heights that write the same keys were
\* finalized in between.
LaterVote(n, h) ==
    /\ finalized(n)[h] \in DOMAIN node[n].blocks
    /\ finalized(n)'[h] = finalized(n)[h]
    /\ \/ precommits(n)'[h] # precommits(n)[h]
       \/ prevotes(n)'[h] # prevotes(n)[h]

C37_AppliedOnce ==
    [][\A h \in Heights \ {0} : LaterVote(1, h) => node'[1].state = node[1].state]_vars

-----------------------------------------------------------------------------
\* C38: Accepted blocks come from validators. Every header other than genesis
\* held in a node's block store has a proposer that is a member of the node's
\* validator set.
C38_ProposersAreValidators ==
    \A n \in Nodes : \A hash \in DOMAIN node[n].blocks :
        node[n].blocks[hash] # genesis =>
            node[n].blocks[hash].proposer \in node[n].consensus.validator_set

-----------------------------------------------------------------------------
\* C39: current_height never decreases along a behaviour of a node, and in
\* every reachable state it is at most the greatest height that has a
\* finalized entry.
C39_HeightMonotone ==
    /\ [](\A n \in Nodes : \E h \in FinalizedHeights(n) : node[n].current_height <= h)
    /\ [][\A n \in Nodes : node'[n].current_height >= node[n].current_height]_vars

\* Node 2 finalized height 2 without holding its block, and height 1 with it
C39_Witness ==
    /\ node[2].current_height = 1
    /\ finalized(2)[2] # None

-----------------------------------------------------------------------------
\* C40: Effect of a fatal vote. A receive_vote call that raises the SAFETY
\* VIOLATION leaves the finalized map, the application state, current_height,
\* the seen-vote set, the prevotes and the stores as before the call; the
\* offending precommit, and nothing else, has been appended to the precommit
\* tally of its height, and its key is not in the seen-vote set.
FatalVote(n) ==
    /\ finalized(n)' = finalized(n)
    /\ prevotes(n)' = prevotes(n)
    /\ node'[n] = [node[n] EXCEPT !.consensus.precommits = precommits(n)']
    /\ \E h \in Heights :
           /\ Len(precommits(n)'[h]) = Len(precommits(n)[h]) + 1
           /\ precommits(n)'[h] = Append(precommits(n)[h], precommits(n)'[h][Len(precommits(n)'[h])])
           /\ precommits(n)'[h][Len(precommits(n)'[h])].height = h
           /\ vote_id(precommits(n)'[h][Len(precommits(n)'[h])]) \notin node'[n].seen_votes
           /\ \A other \in Heights \ {h} : precommits(n)'[other] = precommits(n)[other]

C40_FatalVote ==
    [][\A n \in Nodes : (~raised[n] /\ raised'[n]) => FatalVote(n)]_vars

\* The exception was raised on node 1 after it had finalized and replayed the
\* proposed block
C40_Witness ==
    /\ raised[1]
    /\ node[1].current_height = 1
    /\ finalized(1)[1] = HashB
    /\ Precommitted(1, 1, HashA) >= quorum

====
